---- MODULE Spec2Model ----
(***************************************************************************)
(* Configuration resolution of the GenAI stack bootstrapper: the settings  *)
(* file (.env), the SOURCE validator, the dependency manager, the port     *)
(* manager, the service-environment synthesizer and the Kong gateway       *)
(* generator, as driven by start.py.                                       *)
(*                                                                         *)
(* Text is modelled as a sequence of tokens.  A token is one punctuation   *)
(* character ("=", "#", " ", a quote, a backslash, a sign, a digit) or one *)
(* maximal run of identifier characters ("N8N_SCALE", "container") or a    *)
(* URL piece ("http://", "host").  A file is its content split at the line *)
(* terminators: a non-empty sequence of lines, so that the content "A=1\n" *)
(* is the two lines <<"A","=","1">> and <<>>.                              *)
(***************************************************************************)
EXTENDS Integers, Sequences, FiniteSets, TLC

VARIABLES
    pc,                     \* position of the run / of the call under study
    envFile,                \* content of the settings file; <<>> when there is no such file
    env0,                   \* content of the settings file when the run began
    yaml_config,            \* service-configs.yml on disk (loadable or not)
    cold,                   \* --cold
    overrides,              \* SOURCE overrides collected from the command line
    base_port,              \* --base-port: <<>> when not given, else <<port>>
    portsInUse,             \* local TCP ports that accept a connection
    validation_errors,      \* SourceValidator.validation_errors
    dependency_violations,  \* DependencyManager.dependency_violations
    disabled_services,      \* list returned by auto_resolve_dependency_violations
    suggested_port,         \* suggestion of handle_port_configuration: <<>> or <<port>>
    kong_config,            \* services table built by generate_kong_config
    kongFile,               \* services table in volumes/api/kong-dynamic.yml
    envExample,             \* content of .env.example; <<>> when there is no such file
    GENAI_ENV_FILE,         \* whether GENAI_ENV_FILE names a settings file other than <root>/.env
    rootEnv,                \* content of <root>/.env when GENAI_ENV_FILE is set; <<>> when there is none
    arg,                    \* arguments of the call under study
    ret                     \* its return value

vars == <<pc, envFile, env0, yaml_config, cold, overrides, base_port, portsInUse,
          validation_errors, dependency_violations, disabled_services,
          suggested_port, kong_config, kongFile, envExample, GENAI_ENV_FILE, rootEnv,
          arg, ret>>

None == "None"

-----------------------------------------------------------------------------
(* str methods *)

Whitespace == {" ", "\t"}

RECURSIVE lstrip(_, _)
lstrip(s, chars) ==
    IF s # <<>> /\ Head(s) \in chars THEN lstrip(Tail(s), chars) ELSE s

RECURSIVE rstrip(_, _)
rstrip(s, chars) ==
    IF s # <<>> /\ s[Len(s)] \in chars
    THEN rstrip(SubSeq(s, 1, Len(s) - 1), chars)
    ELSE s

strip(s, chars) == rstrip(lstrip(s, chars), chars)

\* str.find: index of the first occurrence of c, 0 when absent
find(s, c) ==
    IF \E i \in 1..Len(s) : s[i] = c
    THEN CHOOSE i \in 1..Len(s) : s[i] = c /\ \A j \in 1..(i - 1) : s[j] # c
    ELSE 0

\* the part of s before the first c (s.split(c)[0])
before(s, c) == IF find(s, c) = 0 THEN s ELSE SubSeq(s, 1, find(s, c) - 1)

\* the part of s after the first c
after(s, c) == SubSeq(s, find(s, c) + 1, Len(s))

Digits == <<"0", "1", "2", "3", "4", "5", "6", "7", "8", "9">>

IsDigit(t) == \E i \in 1..10 : Digits[i] = t

DigitVal(t) == (CHOOSE i \in 1..10 : Digits[i] = t) - 1

\* str(n) for n >= 0
RECURSIVE str(_)
str(n) == IF n < 10 THEN <<Digits[n + 1]>> ELSE str(n \div 10) \o <<Digits[(n % 10) + 1]>>

RECURSIVE DigitsVal(_, _)
DigitsVal(s, acc) ==
    IF s = <<>> THEN acc ELSE DigitsVal(Tail(s), acc * 10 + DigitVal(Head(s)))

\* int(s): [ok |-> FALSE] stands for ValueError
int(s) ==
    LET t == strip(s, Whitespace)
        signed == t # <<>> /\ Head(t) \in {"-", "+"}
        d == IF signed THEN Tail(t) ELSE t
    IN  IF d # <<>> /\ \A i \in 1..Len(d) : IsDigit(d[i])
        THEN [ok |-> TRUE,
              val |-> IF signed /\ Head(t) = "-" THEN 0 - DigitsVal(d, 0) ELSE DigitsVal(d, 0)]
        ELSE [ok |-> FALSE, val |-> 0]

-----------------------------------------------------------------------------
(* dict: insertion-ordered list of [k, v]; a key is a token sequence *)

DictHas(d, k) == \E i \in 1..Len(d) : d[i].k = k

DictGet(d, k, default) ==
    IF DictHas(d, k) THEN d[CHOOSE i \in 1..Len(d) : d[i].k = k].v ELSE default

DictSet(d, k, v) ==
    IF DictHas(d, k)
    THEN [i \in 1..Len(d) |-> IF d[i].k = k THEN [k |-> k, v |-> v] ELSE d[i]]
    ELSE Append(d, [k |-> k, v |-> v])

Keys(d) == {d[i].k : i \in 1..Len(d)}

\* a variable name as a key
K(name) == <<name>>

-----------------------------------------------------------------------------
(* ConfigParser *)

\* parse_env_line splitting at the last '=' instead of the first
parse_env_line_rsplit(env_vars, raw) ==
    LET line == strip(raw, Whitespace)
        last == CHOOSE i \in 1..Len(line) : line[i] = "=" /\ \A j \in (i + 1)..Len(line) : line[j] # "="
    IN
    IF line = <<>> \/ Head(line) = "#" THEN env_vars
    ELSE IF find(line, "=") = 0 THEN env_vars
    ELSE LET key == SubSeq(line, 1, last - 1)
             v0 == SubSeq(line, last + 1, Len(line))
             v1 == IF find(v0, "#") # 0 THEN before(v0, "#") ELSE v0
             value == strip(strip(strip(v1, Whitespace), {"\""}), {"'"})
         IN  DictSet(env_vars, strip(key, Whitespace), value)

parse_env_line(env_vars, raw) ==
    LET line == strip(raw, Whitespace) IN
    IF line = <<>> \/ Head(line) = "#" THEN env_vars
    ELSE IF find(line, "=") = 0 THEN env_vars
    ELSE LET key == before(line, "=")
             v0 == after(line, "=")
             v1 == IF find(v0, "#") # 0 THEN before(v0, "#") ELSE v0
             value == strip(strip(strip(v1, Whitespace), {"\""}), {"'"})
         IN  DictSet(env_vars, strip(key, Whitespace), value)

\* the loop over the lines; the map after a line is a value before the next
\* line is read
RECURSIVE parse_env_lines(_, _)
parse_env_lines(lines, env_vars) ==
    IF lines = <<>> THEN env_vars
    ELSE CHOOSE result \in {parse_env_lines(Tail(lines), next) :
                                next \in {parse_env_line(env_vars, Head(lines))}} : TRUE

parse_env_file(file) == parse_env_lines(file, <<>>)

\* the tokens that match [A-Z0-9_]+_SOURCE
SourceVarNames ==
    {"LLM_PROVIDER_SOURCE", "COMFYUI_SOURCE", "WEAVIATE_SOURCE", "N8N_SOURCE",
     "SEARXNG_SOURCE", "BACKEND_SOURCE", "OPEN_WEB_UI_SOURCE",
     "LOCAL_DEEP_RESEARCHER_SOURCE", "NEO4J_GRAPH_DB_SOURCE", "JUPYTERHUB_SOURCE",
     "MULTI2VEC_CLIP_SOURCE", "UNKNOWN_SOURCE"}

\* one line of parse_service_sources: re.match(r'^([A-Z0-9_]+_SOURCE)=([^#]*)', line)
parse_source_line(source_mapping, raw) ==
    LET line == strip(raw, Whitespace) IN
    IF Len(line) >= 2 /\ line[1] \in SourceVarNames /\ line[2] = "="
    THEN LET group2 == before(SubSeq(line, 3, Len(line)), "#")
             var_value == strip(strip(strip(group2, Whitespace), {"\""}), {"'"})
         IN  DictSet(source_mapping, K(line[1]), var_value)
    ELSE source_mapping

RECURSIVE parse_source_lines(_, _)
parse_source_lines(lines, source_mapping) ==
    IF lines = <<>> THEN source_mapping
    ELSE CHOOSE result \in {parse_source_lines(Tail(lines), next) :
                                next \in {parse_source_line(source_mapping, Head(lines))}} : TRUE

parse_service_sources(file) ==
    parse_source_lines(file, <<[k |-> K("BACKEND_SOURCE"), v |-> <<"container">>]>>)

-----------------------------------------------------------------------------
(* re.search / re.sub with pattern ^VAR=.*$ and flags=re.MULTILINE *)

Backslash == "\\"
Newline == "\n"
Nul == "\\x00"

\* characters after which a backslash in a replacement template stays as written
TemplateLiteral == {"=", "#", " ", "\t", "\"", "'", "-", "+", "/", ":", "_"}

\* The replacement string as re.sub expands it: \\ is one backslash, \n a line
\* terminator, \0 the NUL character, a backslash before a letter that is no known
\* escape or before a non-zero digit (a group the pattern does not have) and a
\* trailing backslash raise re.error ([ok |-> FALSE]).
RECURSIVE expand_template(_)
expand_template(t) ==
    IF t = <<>> THEN [ok |-> TRUE, s |-> <<>>]
    ELSE IF Head(t) # Backslash
    THEN LET r == expand_template(Tail(t)) IN [ok |-> r.ok, s |-> <<Head(t)>> \o r.s]
    ELSE IF Len(t) = 1 THEN [ok |-> FALSE, s |-> <<>>]
    ELSE LET c == t[2]
             r == expand_template(SubSeq(t, 3, Len(t)))
         IN  IF c = Backslash THEN [ok |-> r.ok, s |-> <<Backslash>> \o r.s]
             ELSE IF c = "n" THEN [ok |-> r.ok, s |-> <<Newline>> \o r.s]
             ELSE IF c = "0" THEN [ok |-> r.ok, s |-> <<Nul>> \o r.s]
             ELSE IF c \in TemplateLiteral THEN [ok |-> r.ok, s |-> <<Backslash, c>> \o r.s]
             ELSE [ok |-> FALSE, s |-> <<>>]

\* text.split("\n")
RECURSIVE splitlines(_)
splitlines(s) ==
    IF find(s, Newline) = 0 THEN <<s>>
    ELSE <<before(s, Newline)>> \o splitlines(after(s, Newline))

line_matches(line, var) == Len(line) >= 2 /\ line[1] = var /\ line[2] = "="

re_search(content, var) == \E i \in 1..Len(content) : line_matches(content[i], var)

\* re.sub that also drops the empty lines of the content
RECURSIVE re_sub_dropping_blank_lines(_, _, _)
re_sub_dropping_blank_lines(content, var, repl) ==
    IF content = <<>> THEN <<>>
    ELSE (IF line_matches(Head(content), var) THEN splitlines(repl)
          ELSE IF Head(content) = <<>> THEN <<>>
          ELSE <<Head(content)>>)
         \o re_sub_dropping_blank_lines(Tail(content), var, repl)

RECURSIVE re_sub(_, _, _)
re_sub(content, var, repl) ==
    IF content = <<>> THEN <<>>
    ELSE (IF line_matches(Head(content), var) THEN splitlines(repl) ELSE <<Head(content)>>)
         \o re_sub(Tail(content), var, repl)

-----------------------------------------------------------------------------
(* ServiceConfig.update_env_file / SourceOverrideManager.update_env_file *)

\* one iteration of the loop over env_vars.items(); st = [ok, content]
upsert_var(st, var_name, var_value) ==
    LET replacement == <<var_name, "=">> \o var_value IN
    IF ~st.ok THEN st
    ELSE IF re_search(st.content, var_name)
    THEN LET e == expand_template(replacement) IN
         IF e.ok THEN [ok |-> TRUE, content |-> re_sub(st.content, var_name, e.s)]
         ELSE [ok |-> FALSE, content |-> st.content]
    ELSE [ok |-> TRUE, content |-> st.content \o <<replacement>>]

RECURSIVE upsert_vars(_, _)
upsert_vars(st, env_vars) ==
    IF env_vars = <<>> THEN st
    ELSE CHOOSE result \in {upsert_vars(next, Tail(env_vars)) :
                                next \in {upsert_var(st, Head(env_vars).k[1], Head(env_vars).v)}} : TRUE

\* update_env_file on an existing file: [ok |-> return value, content |-> file
\* afterwards]; the file is written only when no exception was raised
update_env_file(content, env_vars) ==
    LET r == upsert_vars([ok |-> TRUE, content |-> content], env_vars) IN
    IF r.ok THEN r ELSE [ok |-> FALSE, content |-> content]

-----------------------------------------------------------------------------
(* service-configs.yml as load_yaml_config returns it.  loadable = FALSE stands  *)
(* for a missing or unparsable file (load_yaml_config raises).                  *)

Src(value, scale) == [value |-> value, scale |-> scale]

\* scale |-> <<>> is a source entry without a 'scale' key
BaseSourceConfigurable ==
    << [key |-> "llm_provider",
        sources |-> <<Src("ollama-container-cpu", <<1>>), Src("ollama-localhost", <<0>>),
                      Src("disabled", <<0>>)>>],
       [key |-> "comfyui",
        sources |-> <<Src("container-cpu", <<1>>), Src("localhost", <<0>>),
                      Src("external", <<0>>), Src("disabled", <<0>>)>>],
       [key |-> "weaviate",
        sources |-> <<Src("container", <<1>>), Src("localhost", <<0>>), Src("disabled", <<0>>)>>],
       [key |-> "n8n",
        sources |-> <<Src("container", <<1>>), Src("disabled", <<0>>)>>],
       [key |-> "searxng",
        sources |-> <<Src("container", <<>>), Src("disabled", <<0>>)>>] >>

Schema(sc, fixed, adaptive, deps) ==
    [loadable |-> TRUE, source_configurable |-> sc, fixed_services |-> fixed,
     adaptive_services |-> adaptive, service_dependencies |-> deps]

NoSchema ==
    [loadable |-> FALSE, source_configurable |-> <<>>, fixed_services |-> <<>>,
     adaptive_services |-> <<>>, service_dependencies |-> <<>>]

\* service_key.upper().replace('-', '_') + '_SOURCE'
SourceVarOf(service_key) ==
    CASE service_key = "llm_provider" -> "LLM_PROVIDER_SOURCE"
      [] service_key = "comfyui" -> "COMFYUI_SOURCE"
      [] service_key = "weaviate" -> "WEAVIATE_SOURCE"
      [] service_key = "n8n" -> "N8N_SOURCE"
      [] service_key = "searxng" -> "SEARXNG_SOURCE"
      [] service_key = "backend" -> "BACKEND_SOURCE"
      [] service_key = "open-web-ui" -> "OPEN_WEB_UI_SOURCE"
      [] service_key = "local-deep-researcher" -> "LOCAL_DEEP_RESEARCHER_SOURCE"
      [] service_key = "neo4j-graph-db" -> "NEO4J_GRAPH_DB_SOURCE"
      [] service_key = "jupyterhub" -> "JUPYTERHUB_SOURCE"
      [] service_key = "multi2vec-clip" -> "MULTI2VEC_CLIP_SOURCE"
      [] service_key = "redis" -> "REDIS_SOURCE"
      [] service_key = "supabase-db" -> "SUPABASE_DB_SOURCE"

-----------------------------------------------------------------------------
(* bounded inputs *)

SeqsUpTo(S, n) == UNION {[1..k -> S] : k \in 0..n}

Dict1(k, v) == <<[k |-> K(k), v |-> v]>>

EmptyFile == <<<<>>>>

\* the variables a specification does not use
IdleRun ==
    /\ env0 = <<>>
    /\ yaml_config = NoSchema
    /\ cold = FALSE
    /\ overrides = <<>>
    /\ base_port = <<>>
    /\ portsInUse = {}
    /\ validation_errors = <<>>
    /\ dependency_violations = <<>>
    /\ disabled_services = <<>>
    /\ suggested_port = <<>>
    /\ kong_config = <<>>
    /\ kongFile = <<>>
    /\ envExample = <<>>
    /\ GENAI_ENV_FILE = FALSE
    /\ rootEnv = <<>>

runVars == <<env0, yaml_config, cold, overrides, base_port, portsInUse,
             validation_errors, dependency_violations, disabled_services,
             suggested_port, kong_config, kongFile, envExample, GENAI_ENV_FILE, rootEnv>>

-----------------------------------------------------------------------------
(* SpecRoundTrip: a map written as KEY=VALUE lines, then parse_env_file *)

MaxValueLen == 2

ValueChars == {"x", "#", "\"", "'", " ", "="}

RoundTripMaps ==
    {Dict1("KEY_A", v) : v \in SeqsUpTo(ValueChars, MaxValueLen)}
    \cup {Dict1("KEY_A", v) \o Dict1("KEY_B", w) :
            v \in SeqsUpTo(ValueChars, MaxValueLen), w \in SeqsUpTo(ValueChars, 1)}

InitRoundTrip ==
    /\ pc = "serialize"
    /\ arg \in RoundTripMaps
    /\ envFile = EmptyFile
    /\ ret = None
    /\ IdleRun

Serialize ==
    /\ pc = "serialize"
    /\ envFile' = update_env_file(envFile, arg).content
    /\ pc' = "parse"
    /\ UNCHANGED <<arg, ret, runVars>>

Parse ==
    /\ pc = "parse"
    /\ ret' = parse_env_file(envFile)
    /\ pc' = "parsed"
    /\ UNCHANGED <<arg, envFile, runVars>>

NextRoundTrip == Serialize \/ Parse

SpecRoundTrip == InitRoundTrip /\ [][NextRoundTrip]_vars

\* a value parse_env_file returns as written: no '#', and neither end is
\* whitespace or a quote character
PlainValue(v) ==
    /\ find(v, "#") = 0
    /\ v # <<>> => /\ Head(v) \notin Whitespace \cup {"\"", "'"}
                   /\ v[Len(v)] \notin Whitespace \cup {"\"", "'"}

\* C6 as stated: parse(serialize(m)) = m for every map of identifiers to
\* newline-free values, including values with '#', quotes or surrounding whitespace.
C6_RoundTripAnyValue == pc = "parsed" => ret = arg

\* C6 amended: parse(serialize(m)) = m when no value of m contains '#' or begins or
\* ends with whitespace or a quote character.
C6_RoundTripPlainValues ==
    (pc = "parsed" /\ \A i \in 1..Len(arg) : PlainValue(arg[i].v)) => ret = arg

\* a two-key map with a value beginning with "=" has made the round trip
C6_Witness ==
    /\ pc = "parsed"
    /\ Len(arg) = 2
    /\ arg[1].v = <<"=", "x">>
    /\ arg[2].v = <<"x">>
    /\ ret = arg

-----------------------------------------------------------------------------
(* SpecUpsert: update_env_file applied twice with the same map *)

MaxEscLen == 2

EscChars == {"d", "n", Backslash}

UpsertLines == {<<>>, <<"KEY_A", "=", "d">>, <<"KEY_B", "=", "1">>, <<" ", "KEY_A", "=", "d">>}

UpsertFiles == {<<l>> : l \in UpsertLines} \cup {<<l, m>> : l, m \in UpsertLines}

UpsertMaps ==
    {Dict1("KEY_A", v) : v \in SeqsUpTo(EscChars, MaxEscLen)}
    \cup {Dict1("KEY_B", w) \o Dict1("KEY_A", v) :
            v \in SeqsUpTo(EscChars, MaxEscLen), w \in SeqsUpTo(EscChars, 1)}

InitUpsert ==
    /\ pc = "first"
    /\ arg \in UpsertMaps
    /\ envFile \in UpsertFiles
    /\ ret = None
    /\ IdleRun

\* the first application; ret keeps its return value and the content it left
UpsertFirst ==
    /\ pc = "first"
    /\ LET r == update_env_file(envFile, arg) IN
        /\ envFile' = r.content
        /\ ret' = r
    /\ pc' = "second"
    /\ UNCHANGED <<arg, runVars>>

UpsertSecond ==
    /\ pc = "second"
    /\ envFile' = update_env_file(envFile, arg).content
    /\ pc' = "twice"
    /\ UNCHANGED <<arg, ret, runVars>>

NextUpsert == UpsertFirst \/ UpsertSecond

SpecUpsert == InitUpsert /\ [][NextUpsert]_vars

\* C5: after two applications of update_env_file with the same map the file is
\* what the first application left.
C5_UpsertIdempotent == pc = "twice" => envFile = ret.content

-----------------------------------------------------------------------------
(* PortManager *)

PORT_MAPPING ==
    << [var |-> "SUPABASE_DB_PORT", offset |-> 0],
       [var |-> "REDIS_PORT", offset |-> 1],
       [var |-> "KONG_HTTP_PORT", offset |-> 2],
       [var |-> "KONG_HTTPS_PORT", offset |-> 3],
       [var |-> "SUPABASE_META_PORT", offset |-> 4],
       [var |-> "SUPABASE_STORAGE_PORT", offset |-> 5],
       [var |-> "SUPABASE_AUTH_PORT", offset |-> 6],
       [var |-> "SUPABASE_API_PORT", offset |-> 7],
       [var |-> "SUPABASE_REALTIME_PORT", offset |-> 8],
       [var |-> "SUPABASE_STUDIO_PORT", offset |-> 9],
       [var |-> "GRAPH_DB_PORT", offset |-> 10],
       [var |-> "GRAPH_DB_DASHBOARD_PORT", offset |-> 11],
       [var |-> "LLM_PROVIDER_PORT", offset |-> 12],
       [var |-> "LOCAL_DEEP_RESEARCHER_PORT", offset |-> 13],
       [var |-> "SEARXNG_PORT", offset |-> 14],
       [var |-> "OPEN_WEB_UI_PORT", offset |-> 15],
       [var |-> "BACKEND_PORT", offset |-> 16],
       [var |-> "N8N_PORT", offset |-> 17],
       [var |-> "COMFYUI_PORT", offset |-> 18],
       [var |-> "WEAVIATE_PORT", offset |-> 19],
       [var |-> "WEAVIATE_GRPC_PORT", offset |-> 20],
       [var |-> "DOC_PROCESSOR_PORT", offset |-> 21],
       [var |-> "STT_PROVIDER_PORT", offset |-> 22],
       [var |-> "TTS_PROVIDER_PORT", offset |-> 23],
       [var |-> "JUPYTERHUB_PORT", offset |-> 48] >>

MinBasePort == 1024
MaxPort == 65535
MessageMaxOffset == 20

\* max(self.PORT_MAPPING.values())
MaxOffset ==
    CHOOSE m \in {PORT_MAPPING[i].offset : i \in 1..Len(PORT_MAPPING)} :
        \A i \in 1..Len(PORT_MAPPING) : PORT_MAPPING[i].offset <= m

\* the range start.py prints in its error message (65535 - 20) taken as the check
validate_base_port_message_range(port) == MinBasePort <= port /\ port <= MaxPort - MessageMaxOffset

validate_base_port(port) == MinBasePort <= port /\ port <= MaxPort - MaxOffset

\* connect_ex to 127.0.0.1 fails, or raises: the port is available
check_port_availability(port, inUse) == port \notin inUse

\* dict of port variable -> port, in PORT_MAPPING order (values are ints)
calculate_port_assignments(base) ==
    [i \in 1..Len(PORT_MAPPING) |->
        [k |-> K(PORT_MAPPING[i].var), v |-> base + PORT_MAPPING[i].offset]]

check_port_range_availability(base, inUse) ==
    LET ports == [i \in 1..Len(PORT_MAPPING) |-> base + PORT_MAPPING[i].offset]
    IN  SelectSeq(ports, LAMBDA p : ~check_port_availability(p, inUse))

get_port_conflicts(base, inUse) ==
    SelectSeq(calculate_port_assignments(base),
              LAMBDA a : ~check_port_availability(a.v, inUse))

-----------------------------------------------------------------------------
(* SpecPorts: calculate_port_assignments over base ports around the limits *)

PortMargin == 15

DEFAULT_BASE_PORT == 63000

PortBases ==
    ((MinBasePort - PortMargin)..(MinBasePort + PortMargin))
    \cup ((MaxPort - MaxOffset - PortMargin)..(MaxPort - MaxOffset + PortMargin))
    \cup {DEFAULT_BASE_PORT}

InitPorts ==
    /\ pc = "call"
    /\ arg \in PortBases
    /\ ret = None
    /\ envFile = EmptyFile
    /\ IdleRun

CalculatePorts ==
    /\ pc = "call"
    /\ ret' = [valid |-> validate_base_port(arg),
               assignments |-> calculate_port_assignments(arg)]
    /\ pc' = "done"
    /\ UNCHANGED <<arg, envFile, runVars>>

NextPorts == CalculatePorts

SpecPorts == InitPorts /\ [][NextPorts]_vars

-----------------------------------------------------------------------------
(* SourceValidator *)

\* get_valid_sources_for_service: the set of keys of source_configurable[service_key]
get_valid_sources_for_service(yaml, service_key) ==
    IF ~yaml.loadable THEN {}
    ELSE UNION { {yaml.source_configurable[i].sources[j].value :
                      j \in 1..Len(yaml.source_configurable[i].sources)} :
                 i \in {n \in 1..Len(yaml.source_configurable) :
                            yaml.source_configurable[n].key = service_key} }

\* get_service_mapping_from_yaml: SOURCE variable -> service key; the keys of
\* source_configurable first, then those of fixed_services (a later key with the
\* same variable name replaces an earlier one)
get_service_mapping_from_yaml(yaml) ==
    IF ~yaml.loadable THEN <<>>
    ELSE LET keys == [i \in 1..Len(yaml.source_configurable) |-> yaml.source_configurable[i].key]
                     \o yaml.fixed_services
             add[n \in 0..Len(keys)] ==
                 IF n = 0 THEN <<>>
                 ELSE DictSet(add[n - 1], K(SourceVarOf(keys[n])), keys[n])
         IN  add[Len(keys)]

get_adaptive_services_from_yaml(yaml) ==
    IF ~yaml.loadable THEN {}
    ELSE {SourceVarOf(yaml.adaptive_services[i]) : i \in 1..Len(yaml.adaptive_services)}

Err(kind, var, value) == [kind |-> kind, var |-> var, value |-> value]

\* validate_source_value with the adaptive test placed after the enumeration test
validate_source_value_enum_first(yaml, service_var, source_value) ==
    LET service_mapping == get_service_mapping_from_yaml(yaml)
        adaptive_services == get_adaptive_services_from_yaml(yaml)
        service_key == DictGet(service_mapping, K(service_var), "")
        valid_sources == get_valid_sources_for_service(yaml, service_key)
    IN  IF service_key # "" /\ \E v \in valid_sources : source_value = <<v>>
        THEN [ok |-> TRUE, errors |-> <<>>]
        ELSE IF service_var \in adaptive_services
        THEN IF source_value # <<"container">>
             THEN [ok |-> FALSE, errors |-> <<Err("adaptive", service_var, source_value)>>]
             ELSE [ok |-> TRUE, errors |-> <<>>]
        ELSE IF service_key = ""
        THEN [ok |-> FALSE, errors |-> <<Err("unknown", service_var, source_value)>>]
        ELSE [ok |-> FALSE, errors |-> <<Err("invalid", service_var, source_value)>>]

\* validate_source_value: [ok |-> return value, errors |-> validation_errors after
\* the call (the list is cleared on entry)]
validate_source_value(yaml, service_var, source_value) ==
    LET service_mapping == get_service_mapping_from_yaml(yaml)
        adaptive_services == get_adaptive_services_from_yaml(yaml)
        service_key == DictGet(service_mapping, K(service_var), "")
        valid_sources == get_valid_sources_for_service(yaml, service_key)
    IN  IF service_var \in adaptive_services
        THEN IF source_value # <<"container">>
             THEN [ok |-> FALSE, errors |-> <<Err("adaptive", service_var, source_value)>>]
             ELSE [ok |-> TRUE, errors |-> <<>>]
        ELSE IF service_key = ""
        THEN [ok |-> FALSE, errors |-> <<Err("unknown", service_var, source_value)>>]
        ELSE IF valid_sources = {}
        THEN [ok |-> FALSE, errors |-> <<Err("no_sources", service_key, source_value)>>]
        ELSE IF ~\E v \in valid_sources : source_value = <<v>>
        THEN [ok |-> FALSE, errors |-> <<Err("invalid", service_var, source_value)>>]
        ELSE [ok |-> TRUE, errors |-> <<>>]

-----------------------------------------------------------------------------
(* SpecValidate: validate_source_value over schemas, variables and values *)

ValidateSourceConfigurables ==
    { BaseSourceConfigurable,
      BaseSourceConfigurable
        \o <<[key |-> "open-web-ui", sources |-> <<Src("container", <<1>>), Src("disabled", <<0>>)>>]>>,
      BaseSourceConfigurable \o <<[key |-> "jupyterhub", sources |-> <<>>]>> }

ValidateSchemas ==
    { Schema(sc, fixed, adaptive, <<>>) :
        sc \in ValidateSourceConfigurables,
        fixed \in {<<>>, <<"redis">>},
        adaptive \in {<<>>, <<"backend">>, <<"backend", "open-web-ui">>} }

ValidateVars ==
    {"N8N_SOURCE", "COMFYUI_SOURCE", "BACKEND_SOURCE", "OPEN_WEB_UI_SOURCE",
     "JUPYTERHUB_SOURCE", "REDIS_SOURCE", "UNKNOWN_SOURCE"}

ValidateValues ==
    {<<"container">>, <<"disabled">>, <<"external">>, <<"invalid-value">>, <<>>}

InitValidate ==
    /\ pc = "call"
    /\ arg \in [var : ValidateVars, value : ValidateValues]
    /\ ret = None
    /\ envFile = EmptyFile
    /\ env0 = <<>>
    /\ yaml_config \in ValidateSchemas
    /\ cold = FALSE
    /\ overrides = <<>>
    /\ base_port = <<>>
    /\ portsInUse = {}
    /\ validation_errors \in {<<>>, <<Err("invalid", "N8N_SOURCE", <<"stale">>)>>}
    /\ dependency_violations = <<>>
    /\ disabled_services = <<>>
    /\ suggested_port = <<>>
    /\ kong_config = <<>>
    /\ kongFile = <<>>
    /\ envExample = <<>>
    /\ GENAI_ENV_FILE = FALSE
    /\ rootEnv = <<>>

ValidateSourceValue ==
    /\ pc = "call"
    /\ LET r == validate_source_value(yaml_config, arg.var, arg.value) IN
        /\ ret' = r.ok
        /\ validation_errors' = r.errors
    /\ pc' = "done"
    /\ UNCHANGED <<arg, envFile, env0, yaml_config, cold, overrides, base_port, portsInUse,
                   dependency_violations, disabled_services, suggested_port,
                   kong_config, kongFile, envExample, GENAI_ENV_FILE, rootEnv>>

NextValidate == ValidateSourceValue

SpecValidate == InitValidate /\ [][NextValidate]_vars

\* the source values the schema declares for the service of variable k
DeclaredFor(yaml, k) ==
    UNION { {s.value : s \in {yaml.source_configurable[i].sources[j] :
                                  j \in 1..Len(yaml.source_configurable[i].sources)}} :
            i \in {n \in 1..Len(yaml.source_configurable) :
                       SourceVarOf(yaml.source_configurable[n].key) = k} }

InAdaptiveClass(yaml, k) ==
    \E i \in 1..Len(yaml.adaptive_services) : SourceVarOf(yaml.adaptive_services[i]) = k

KnownToSchema(yaml, k) ==
    \/ InAdaptiveClass(yaml, k)
    \/ \E i \in 1..Len(yaml.source_configurable) : SourceVarOf(yaml.source_configurable[i].key) = k
    \/ \E i \in 1..Len(yaml.fixed_services) : SourceVarOf(yaml.fixed_services[i]) = k

UnknownIsNamed ==
    ~KnownToSchema(yaml_config, arg.var) =>
        /\ ret = FALSE
        /\ validation_errors = <<Err("unknown", arg.var, arg.value)>>

\* C4 as stated: validate_source_value(k, v) is true iff v is declared for k's
\* service or k is adaptive and v = "container"; an unknown k is invalid and the
\* error names it.
C4_EnumerationOrAdaptive ==
    pc = "done" =>
        /\ ret <=> \/ \E v \in DeclaredFor(yaml_config, arg.var) : arg.value = <<v>>
                   \/ InAdaptiveClass(yaml_config, arg.var) /\ arg.value = <<"container">>
        /\ UnknownIsNamed

\* C4 amended: for an adaptive k the result is true iff v = "container", whatever
\* the schema declares for k; for any other k it is true iff v is declared for k's
\* service; an unknown k is invalid and the error names it.
C4_AdaptiveThenEnumeration ==
    pc = "done" =>
        /\ ret <=> IF InAdaptiveClass(yaml_config, arg.var)
                   THEN arg.value = <<"container">>
                   ELSE \E v \in DeclaredFor(yaml_config, arg.var) : arg.value = <<v>>
        /\ UnknownIsNamed

\* an adaptive variable that the schema also lists with an enumeration was given a
\* declared value other than "container" and rejected
C4_Witness ==
    /\ pc = "done"
    /\ arg.var = "OPEN_WEB_UI_SOURCE"
    /\ arg.value = <<"disabled">>
    /\ InAdaptiveClass(yaml_config, arg.var)
    /\ "disabled" \in DeclaredFor(yaml_config, arg.var)
    /\ ret = FALSE

-----------------------------------------------------------------------------
(* DependencyManager *)

\* scale_var_mapping of get_service_scale; "" when the service has no entry
scale_var_mapping(service_name) ==
    CASE service_name = "n8n" -> "N8N_SCALE"
      [] service_name = "n8n-worker" -> "N8N_SCALE"
      [] service_name = "weaviate" -> "WEAVIATE_SCALE"
      [] service_name = "neo4j-graph-db" -> "NEO4J_SCALE"
      [] service_name = "searxng" -> "SEARXNG_SCALE"
      [] service_name = "backend" -> "BACKEND_SCALE"
      [] service_name = "jupyterhub" -> "JUPYTERHUB_SCALE"
      [] OTHER -> ""

\* source_var_mapping of get_service_scale; "" when the service has no entry
source_var_mapping(service_name) ==
    CASE service_name = "weaviate" -> "WEAVIATE_SOURCE"
      [] service_name = "n8n" -> "N8N_SOURCE"
      [] service_name = "neo4j-graph-db" -> "NEO4J_GRAPH_DB_SOURCE"
      [] service_name = "searxng" -> "SEARXNG_SOURCE"
      [] service_name = "backend" -> "BACKEND_SOURCE"
      [] service_name = "jupyterhub" -> "JUPYTERHUB_SOURCE"
      [] OTHER -> ""

\* get_service_scale: [ok |-> FALSE] when int() raises ValueError
get_service_scale(file, service_name) ==
    LET env_vars == parse_env_file(file)
        scale_var == scale_var_mapping(service_name)
    IN  IF scale_var = ""
        THEN LET source_vars == parse_service_sources(file)
                 source_var == source_var_mapping(service_name)
             IN  IF source_var # "" /\ DictGet(source_vars, K(source_var), <<>>) = <<"disabled">>
                 THEN [ok |-> TRUE, val |-> 0]
                 ELSE [ok |-> TRUE, val |-> 1]
        ELSE int(DictGet(env_vars, K(scale_var), <<"1">>))

Violation(service, required) == [service |-> service, required_service |-> required]

\* the loop over required_deps of one service; st = [raised, violations]
RECURSIVE check_required(_, _, _, _)
check_required(file, service_name, required_deps, st) ==
    IF st.raised \/ required_deps = <<>> THEN st
    ELSE LET required_scale == get_service_scale(file, Head(required_deps)) IN
         IF ~required_scale.ok THEN [st EXCEPT !.raised = TRUE]
         ELSE check_required(file, service_name, Tail(required_deps),
                  IF required_scale.val = 0
                  THEN [st EXCEPT !.violations = Append(@, Violation(service_name, Head(required_deps)))]
                  ELSE st)

\* the loop over optional_deps: it only reads scales, which may raise
check_optional(file, optional_deps, st) ==
    IF st.raised THEN st
    ELSE [st EXCEPT !.raised =
            \E i \in 1..Len(optional_deps) :
                ~get_service_scale(file, optional_deps[i]).ok]

\* the loop over dependencies.items() with the optional services checked as
\* the required ones are
RECURSIVE check_services_optional_required(_, _, _)
check_services_optional_required(file, dependencies, st) ==
    IF st.raised \/ dependencies = <<>> THEN st
    ELSE LET dep_config == Head(dependencies)
             service_scale == get_service_scale(file, dep_config.service)
         IN  IF ~service_scale.ok THEN [st EXCEPT !.raised = TRUE]
             ELSE IF service_scale.val = 0
             THEN check_services_optional_required(file, Tail(dependencies), st)
             ELSE check_services_optional_required(file, Tail(dependencies),
                      check_required(file, dep_config.service,
                                     dep_config.requires \o dep_config.optional, st))

\* the loop over dependencies.items()
RECURSIVE check_services(_, _, _)
check_services(file, dependencies, st) ==
    IF st.raised \/ dependencies = <<>> THEN st
    ELSE LET dep_config == Head(dependencies)
             service_scale == get_service_scale(file, dep_config.service)
         IN  IF ~service_scale.ok THEN [st EXCEPT !.raised = TRUE]
             ELSE IF service_scale.val = 0
             THEN check_services(file, Tail(dependencies), st)
             ELSE check_services(file, Tail(dependencies),
                      check_optional(file, dep_config.optional,
                          check_required(file, dep_config.service, dep_config.requires, st)))

\* check_service_dependencies: [raised, ok |-> return value, violations |->
\* dependency_violations afterwards]
check_service_dependencies(file, yaml) ==
    IF ~yaml.loadable THEN [raised |-> FALSE, ok |-> FALSE, violations |-> <<>>]
    ELSE LET st == check_services(file, yaml.service_dependencies,
                                  [raised |-> FALSE, violations |-> <<>>])
         IN  [raised |-> st.raised, ok |-> ~st.raised /\ st.violations = <<>>,
              violations |-> st.violations]

\* the scale variables the n8n branch rewrites
n8n_scale_vars_to_update == <<"N8N_SCALE">>

\* scale_var_mapping of the else branch of auto_resolve_dependency_violations
resolve_scale_var_mapping(service_name) ==
    CASE service_name = "backend" -> "BACKEND_SCALE"
      [] service_name = "weaviate" -> "WEAVIATE_SCALE"
      [] service_name = "neo4j-graph-db" -> "NEO4J_SCALE"
      [] service_name = "searxng" -> "SEARXNG_SCALE"
      [] service_name = "jupyterhub" -> "JUPYTERHUB_SCALE"
      [] OTHER -> ""

RECURSIVE sub_scale_vars(_, _)
sub_scale_vars(content, scale_vars) ==
    IF scale_vars = <<>> THEN content
    ELSE sub_scale_vars(re_sub(content, Head(scale_vars), <<Head(scale_vars), "=", "0">>),
                        Tail(scale_vars))

\* auto_resolve_dependency_violations: st = [content, disabled]
RECURSIVE auto_resolve(_, _)
auto_resolve(violations, st) ==
    IF violations = <<>> THEN st
    ELSE LET service_name == Head(violations).service IN
         auto_resolve(Tail(violations),
            IF service_name \in {"n8n", "n8n-worker"}
            THEN [content |-> sub_scale_vars(st.content, n8n_scale_vars_to_update),
                  disabled |-> Append(st.disabled, service_name)]
            ELSE IF resolve_scale_var_mapping(service_name) # ""
            THEN [content |-> sub_scale_vars(st.content, <<resolve_scale_var_mapping(service_name)>>),
                  disabled |-> Append(st.disabled, service_name)]
            ELSE st)

auto_resolve_dependency_violations(file, violations) ==
    auto_resolve(violations, [content |-> file, disabled |-> <<>>])

-----------------------------------------------------------------------------
(* SpecDeps: check_service_dependencies, then auto_resolve_dependency_violations *)

Dep(service, requires, optional) ==
    [service |-> service, requires |-> requires, optional |-> optional]

\* service_dependencies sections: acyclic requires graphs
DepGraphs ==
    { <<Dep("n8n", <<"weaviate">>, <<>>)>>,
      <<Dep("n8n", <<"weaviate">>, <<"searxng">>)>>,
      <<Dep("backend", <<"n8n">>, <<>>), Dep("n8n", <<"weaviate">>, <<>>)>>,
      <<Dep("n8n", <<"weaviate">>, <<>>), Dep("backend", <<"n8n">>, <<>>)>>,
      <<Dep("open-web-ui", <<"searxng">>, <<>>)>>,
      <<Dep("backend", <<>>, <<"n8n", "searxng">>)>>,
      <<Dep("n8n", <<>>, <<"searxng">>), Dep("n8n-worker", <<"weaviate">>, <<>>)>>,
      <<Dep("jupyterhub", <<"neo4j-graph-db", "searxng">>, <<>>)>>,
      <<>> }

DepSchemas ==
    { Schema(BaseSourceConfigurable, <<>>, <<"backend", "open-web-ui">>, deps) :
        deps \in DepGraphs }
        \cup {NoSchema}

\* the lines of one variable: absent, or VAR=value for each value
ScaleLines(var, values) == {<<>>} \cup {<<<<var, "=">> \o v>> : v \in values}

DepFiles ==
    { o \o n \o m \o w \o b \o x :
        o \in ScaleLines("OPEN_WEB_UI_SOURCE", {<<"disabled">>}),
        n \in ScaleLines("N8N_SCALE", {<<"0">>, <<"1">>}),
        m \in {<<>>, <<<<"N8N_WORKER_SCALE", "=", "1">>, <<"N8N_INIT_SCALE", "=", "1">>>>},
        w \in ScaleLines("WEAVIATE_SCALE", {<<"0">>, <<"1">>, <<>>}),
        b \in ScaleLines("BACKEND_SCALE", {<<"1">>}),
        x \in ScaleLines("SEARXNG_SCALE", {<<"0">>, <<"1">>, <<"x">>}) }
    \cup {EmptyFile}

InitDeps ==
    /\ pc = "check"
    /\ arg = None
    /\ ret = None
    /\ envFile \in DepFiles \ {<<>>}
    /\ env0 = envFile
    /\ yaml_config \in DepSchemas
    /\ cold = FALSE
    /\ overrides = <<>>
    /\ base_port = <<>>
    /\ portsInUse = {}
    /\ validation_errors = <<>>
    /\ dependency_violations \in {<<>>, <<Violation("backend", "weaviate")>>}
    /\ disabled_services = <<>>
    /\ suggested_port = <<>>
    /\ kong_config = <<>>
    /\ kongFile = <<>>
    /\ envExample = <<>>
    /\ GENAI_ENV_FILE = FALSE
    /\ rootEnv = <<>>

depIdle == <<arg, env0, yaml_config, cold, overrides, base_port, portsInUse,
             validation_errors, suggested_port, kong_config, kongFile, envExample,
             GENAI_ENV_FILE, rootEnv>>

\* DependencyManager.check_service_dependencies(); an exception leaves at "raised"
CheckServiceDependencies ==
    /\ pc = "check"
    /\ LET r == check_service_dependencies(envFile, yaml_config) IN
        /\ dependency_violations' = r.violations
        /\ pc' = IF r.raised THEN "raised" ELSE "checked"
        /\ ret' = IF r.raised THEN ret ELSE r.ok
    /\ UNCHANGED <<envFile, disabled_services, depIdle>>

\* DependencyManager.auto_resolve_dependency_violations()
AutoResolveDependencyViolations ==
    /\ pc = "checked"
    /\ LET r == auto_resolve_dependency_violations(envFile, dependency_violations) IN
        /\ envFile' = r.content
        /\ disabled_services' = r.disabled
        /\ ret' = r.disabled
    /\ pc' = "resolved"
    /\ UNCHANGED <<dependency_violations, depIdle>>

NextDeps == CheckServiceDependencies \/ AutoResolveDependencyViolations

SpecDeps == InitDeps /\ [][NextDeps]_vars

\* service S is enabled and requires a disabled service, by get_service_scale
\* on the given file
BrokenEdge(file, dep_config) ==
    /\ get_service_scale(file, dep_config.service).ok
    /\ get_service_scale(file, dep_config.service).val > 0
    /\ \E i \in 1..Len(dep_config.requires) :
          /\ get_service_scale(file, dep_config.requires[i]).ok
          /\ get_service_scale(file, dep_config.requires[i]).val = 0

\* C1: after check_service_dependencies and auto_resolve_dependency_violations
\* no service with scale > 0 requires a service with scale 0.
C1_DependencySoundness ==
    pc = "resolved" =>
        \A i \in 1..Len(yaml_config.service_dependencies) :
            ~BrokenEdge(envFile, yaml_config.service_dependencies[i])

\* n8n is enabled, requires only weaviate, weaviate is disabled, and the three
\* n8n scale variables are lines of the file
N8nWithoutWeaviate ==
    /\ yaml_config.loadable
    /\ yaml_config.service_dependencies = <<Dep("n8n", <<"weaviate">>, <<>>)>>
    /\ {K("N8N_SCALE"), K("N8N_WORKER_SCALE"), K("N8N_INIT_SCALE")} \subseteq Keys(parse_env_file(env0))
    /\ BrokenEdge(env0, Dep("n8n", <<"weaviate">>, <<>>))

\* C7: with n8n enabled and weaviate disabled the check records one violation,
\* and the resolution writes 0 to N8N_SCALE, N8N_WORKER_SCALE and N8N_INIT_SCALE
\* and returns ["n8n"].
C7_N8nMirrorsDisabled ==
    (pc = "resolved" /\ N8nWithoutWeaviate) =>
        /\ Len(dependency_violations) = 1
        /\ ret = <<"n8n">>
        /\ \A v \in {"N8N_SCALE", "N8N_WORKER_SCALE", "N8N_INIT_SCALE"} :
              DictGet(parse_env_file(envFile), K(v), <<>>) = <<"0">>

\* C17: the enablement rule of get_service_scale: a service with a mapped
\* scale variable has the scale that variable holds (1 when the line is
\* absent); a service without one has scale 0 exactly when its selector is
\* "disabled", and a positive scale otherwise.  Taken on the file the
\* dependency check has read.
C17_EnablementRule ==
    pc = "checked" =>
    \A service \in {"n8n", "weaviate", "searxng", "backend", "open-web-ui"} :
        LET scale == get_service_scale(envFile, service)
            selector == DictGet(parse_service_sources(envFile), K(SourceVarOf(service)), <<>>)
        IN  IF scale_var_mapping(service) # ""
            THEN scale = int(DictGet(parse_env_file(envFile),
                                     K(scale_var_mapping(service)), <<"1">>))
            ELSE /\ scale.ok
                 /\ scale.val >= 0
                 /\ scale.val = 0 <=> selector = <<"disabled">>

\* C15: every violation recorded by check_service_dependencies is recovered by
\* auto-disable: after auto_resolve_dependency_violations the dependent service
\* is in the returned list and its scale reads 0, whatever service the schema
\* names (with or without a scale variable, with or without a scale line).
C15_EveryViolationAutoDisabled ==
    pc = "resolved" =>
        \A i \in 1..Len(dependency_violations) :
            LET service == dependency_violations[i].service IN
            /\ \E j \in 1..Len(disabled_services) : disabled_services[j] = service
            /\ get_service_scale(envFile, service).ok
            /\ get_service_scale(envFile, service).val = 0

-----------------------------------------------------------------------------
(* KongConfigGenerator.  A table entry is a record with the keys the code    *)
(* gives it ('name', 'url'); routes and plugins are constant per entry and    *)
(* left out.  A URL is its scheme followed by the rest.                       *)

Service(name, url) == [name |-> name, url |-> url]

\* self.env_vars.get(key, "")
get_env_value(env_vars, key) == DictGet(env_vars, K(key), <<>>)

get_supabase_services ==
    << Service("auth-v1-open", <<"http://", "supabase-auth:9999/verify">>),
       Service("auth-v1-open-callback", <<"http://", "supabase-auth:9999/callback">>),
       Service("auth-v1-open-authorize", <<"http://", "supabase-auth:9999/authorize">>),
       Service("auth-v1", <<"http://", "supabase-auth:9999/">>),
       Service("rest-v1", <<"http://", "supabase-api:3000/">>),
       Service("graphql-v1", <<"http://", "supabase-api:3000/rpc/graphql">>),
       Service("realtime-v1-ws", <<"http://", "supabase-realtime:4000/socket">>),
       Service("realtime-v1-rest", <<"http://", "supabase-realtime:4000/api">>),
       Service("storage-v1", <<"http://", "supabase-storage:5000/">>),
       Service("meta", <<"http://", "supabase-meta:8080/">>),
       Service("dashboard", <<"http://", "supabase-studio:3000/">>) >>

\* external_url.startswith(('http://', 'https://'))
startswith_http(url) == url # <<>> /\ Head(url) \in {"http://", "https://"}

\* generate_comfyui_service with an entry that has no 'url' where the code returns None
generate_comfyui_service_no_url(env_vars) ==
    LET source == get_env_value(env_vars, "COMFYUI_SOURCE")
        external_url == get_env_value(env_vars, "COMFYUI_EXTERNAL_URL")
    IN  IF source = <<"disabled">> THEN <<>>
        ELSE IF source = <<"localhost">>
        THEN <<Service("comfyui-api", <<"http://", "host.docker.internal:8000/">>)>>
        ELSE IF source = <<"external">>
        THEN IF external_url = <<>> \/ ~startswith_http(external_url)
             THEN <<[name |-> "comfyui-api"]>>
             ELSE <<Service("comfyui-api", external_url)>>
        ELSE <<Service("comfyui-api", <<"http://", "comfyui:18188/">>)>>

\* generate_comfyui_service: <<>> is None, <<entry>> the entry
generate_comfyui_service(env_vars) ==
    LET source == get_env_value(env_vars, "COMFYUI_SOURCE")
        external_url == get_env_value(env_vars, "COMFYUI_EXTERNAL_URL")
    IN  IF source = <<"disabled">> THEN <<>>
        ELSE IF source = <<"localhost">>
        THEN <<Service("comfyui-api", <<"http://", "host.docker.internal:8000/">>)>>
        ELSE IF source = <<"external">>
        THEN IF external_url = <<>> THEN <<>>
             ELSE IF ~startswith_http(external_url) THEN <<>>
             ELSE <<Service("comfyui-api", external_url)>>
        ELSE <<Service("comfyui-api", <<"http://", "comfyui:18188/">>)>>

generate_n8n_service(env_vars) ==
    IF get_env_value(env_vars, "N8N_SOURCE") = <<"disabled">> THEN <<>>
    ELSE <<Service("n8n-api", <<"http://", "n8n:5678/">>)>>

\* generate_searxng_service without the test for "disabled"
generate_searxng_service_always(env_vars) ==
    <<Service("searxng-api", <<"http://", "searxng:8080/">>)>>

generate_searxng_service(env_vars) ==
    IF get_env_value(env_vars, "SEARXNG_SOURCE") = <<"disabled">> THEN <<>>
    ELSE <<Service("searxng-api", <<"http://", "searxng:8080/">>)>>

generate_backend_service(env_vars) ==
    IF get_env_value(env_vars, "BACKEND_SOURCE") = <<"disabled">> THEN <<>>
    ELSE <<Service("backend-api", <<"http://", "backend:8000/">>)>>

generate_openwebui_service(env_vars) ==
    IF get_env_value(env_vars, "OPEN_WEB_UI_SOURCE") = <<"disabled">> THEN <<>>
    ELSE <<Service("openwebui-api", <<"http://", "open-web-ui:8080/">>)>>

get_adaptive_services(env_vars) ==
    generate_backend_service(env_vars) \o generate_openwebui_service(env_vars)

get_all_services(env_vars) ==
    get_supabase_services
        \o generate_comfyui_service(env_vars)
        \o generate_n8n_service(env_vars)
        \o generate_searxng_service(env_vars)
        \o get_adaptive_services(env_vars)

\* generate_kong_config: load_environment_variables, then the table
generate_kong_config(file) ==
    [format_version |-> "2.1", services |-> get_all_services(parse_env_file(file))]

\* validate_config: the errors, one per missing key of an entry
validate_config(config) ==
    LET services == config.services
        missing(i) ==
            (IF "name" \in DOMAIN services[i] THEN <<>> ELSE <<[entry |-> i, key |-> "name"]>>)
            \o (IF "url" \in DOMAIN services[i] THEN <<>> ELSE <<[entry |-> i, key |-> "url"]>>)
        errs[i \in 0..Len(services)] == IF i = 0 THEN <<>> ELSE errs[i - 1] \o missing(i)
    IN  errs[Len(services)]

-----------------------------------------------------------------------------
(* SpecKong: GenAIStackStarter.generate_kong_configuration on a settings file *)

ValidUrl == <<"http://", "comfy.example:8188/">>

KongFiles ==
    { c \o u \o n \o x \o b \o o \o k :
        c \in ScaleLines("COMFYUI_SOURCE",
                 {<<"container-cpu">>, <<"localhost">>, <<"external">>, <<"disabled">>}),
        u \in ScaleLines("COMFYUI_EXTERNAL_URL",
                 {<<>>, ValidUrl, <<"https://", "comfy.example/">>, <<"ftp://", "comfy.example/">>,
                  <<"comfy.example:8188">>}),
        n \in ScaleLines("N8N_SOURCE", {<<"container">>, <<"disabled">>}),
        x \in ScaleLines("SEARXNG_SOURCE", {<<"disabled">>}),
        b \in ScaleLines("BACKEND_SOURCE", {<<"disabled">>}),
        o \in ScaleLines("OPEN_WEB_UI_SOURCE", {<<"disabled">>}),
        k \in ScaleLines("N8N_SCALE", {<<"0">>}) }

\* what happens in write_config: it succeeds, mkdir or open raises, or the dump
\* raises after the file was opened for writing
WriteOutcomes == {"written", "not_opened", "dump_raises"}

InitKong ==
    /\ pc = "generate"
    /\ arg \in [write : WriteOutcomes]
    /\ ret = None
    /\ envFile \in (KongFiles \ {<<>>}) \cup {EmptyFile}
    /\ env0 = envFile
    /\ yaml_config = NoSchema
    /\ cold = FALSE
    /\ overrides = <<>>
    /\ base_port = <<>>
    /\ portsInUse = {}
    /\ validation_errors = <<>>
    /\ dependency_violations = <<>>
    /\ disabled_services = <<>>
    /\ suggested_port = <<>>
    /\ kong_config = <<>>
    /\ kongFile \in {<<>>, get_supabase_services}
    /\ envExample = <<>>
    /\ GENAI_ENV_FILE = FALSE
    /\ rootEnv = <<>>

\* write_config(config, path): the routing file afterwards and the return value
write_config(config, outcome, old) ==
    CASE outcome = "written" -> {[ok |-> TRUE, file |-> config.services]}
      [] outcome = "not_opened" -> {[ok |-> FALSE, file |-> old]}
      [] outcome = "dump_raises" ->
            {[ok |-> FALSE, file |-> SubSeq(config.services, 1, k)] :
                k \in 0..(Len(config.services) - 1)}

\* generate_kong_configuration: generate, validate, write
GenerateKongConfiguration ==
    /\ pc = "generate"
    /\ LET config == generate_kong_config(envFile)
           errors == validate_config(config)
       IN  /\ kong_config' = config
           /\ IF errors # <<>>
              THEN ret' = FALSE /\ kongFile' = kongFile
              ELSE \E w \in write_config(config, arg.write, kongFile) :
                      ret' = w.ok /\ kongFile' = w.file
    /\ pc' = "done"
    /\ UNCHANGED <<envFile, arg, env0, yaml_config, cold, overrides, base_port, portsInUse,
                   validation_errors, dependency_violations, disabled_services, suggested_port,
                   envExample, GENAI_ENV_FILE, rootEnv>>

NextKong == GenerateKongConfiguration

SpecKong == InitKong /\ [][NextKong]_vars

\* the gateway services with a selector: service key, selector variable, entry name
GatewayServices ==
    { [key |-> "comfyui", var |-> "COMFYUI_SOURCE", name |-> "comfyui-api"],
      [key |-> "n8n", var |-> "N8N_SOURCE", name |-> "n8n-api"],
      [key |-> "searxng", var |-> "SEARXNG_SOURCE", name |-> "searxng-api"],
      [key |-> "backend", var |-> "BACKEND_SOURCE", name |-> "backend-api"],
      [key |-> "open-web-ui", var |-> "OPEN_WEB_UI_SOURCE", name |-> "openwebui-api"] }

\* the selector of a gateway service as the generator reads it
Selector(file, g) == get_env_value(parse_env_file(file), g.var)

\* the number of entries of a table with the given name
Count(services, name) == Cardinality({i \in 1..Len(services) : services[i].name = name})

\* comfyui is set to "external" and the URL is missing or has no http(s) scheme
ExternalWithoutUrl(file) ==
    /\ get_env_value(parse_env_file(file), "COMFYUI_SOURCE") = <<"external">>
    /\ ~startswith_http(get_env_value(parse_env_file(file), "COMFYUI_EXTERNAL_URL"))

\* C2 as stated: an enabled gateway service whose selector is not "disabled" has
\* exactly one entry in the generated table, one whose selector is "disabled" none.
C2_GatewayCompleteness ==
    pc = "done" =>
        \A g \in GatewayServices :
            /\ (get_service_scale(envFile, g.key).val > 0 /\ Selector(envFile, g) # <<"disabled">>)
                  => Count(kong_config.services, g.name) = 1
            /\ Selector(envFile, g) = <<"disabled">> => Count(kong_config.services, g.name) = 0

\* C2 amended: a gateway service has no entry when its selector is "disabled" or
\* when it is comfyui set to "external" without an http(s) URL, and exactly one
\* entry otherwise.
C2_CompleteButForExternalWithoutUrl ==
    pc = "done" =>
        \A g \in GatewayServices :
            Count(kong_config.services, g.name) =
                IF Selector(envFile, g) = <<"disabled">>
                      \/ (g.key = "comfyui" /\ ExternalWithoutUrl(envFile))
                THEN 0 ELSE 1

\* comfyui external with a URL has its entry while the disabled n8n has none
C2_Witness ==
    /\ pc = "done"
    /\ get_env_value(parse_env_file(envFile), "COMFYUI_SOURCE") = <<"external">>
    /\ ~ExternalWithoutUrl(envFile)
    /\ get_env_value(parse_env_file(envFile), "N8N_SOURCE") = <<"disabled">>
    /\ Count(kong_config.services, "comfyui-api") = 1
    /\ Count(kong_config.services, "n8n-api") = 0

\* the entries of a table other than the comfyui entry, in order
OtherEntries(services) == SelectSeq(services, LAMBDA e : e.name # "comfyui-api")

\* the settings file with a valid external URL in place of the missing one
WithValidUrl(file) == update_env_file(file, Dict1("COMFYUI_EXTERNAL_URL", ValidUrl)).content

\* C8: with comfyui set to "external" and no http(s) URL, the table has no comfyui
\* entry and otherwise the entries, in the same order, that a valid URL would
\* give; that table passes validation and is what a successful write leaves.
C8_OnlyOffendingEntryDropped ==
    (pc = "done" /\ ExternalWithoutUrl(envFile)) =>
        /\ Count(kong_config.services, "comfyui-api") = 0
        /\ kong_config.services = OtherEntries(generate_kong_config(WithValidUrl(envFile)).services)
        /\ validate_config(kong_config) = <<>>
        /\ arg.write = "written" => (ret = TRUE /\ kongFile = kong_config.services)

\* an external comfyui with an ftp URL was dropped and the table, n8n included,
\* was written
C8_Witness ==
    /\ pc = "done"
    /\ get_env_value(parse_env_file(envFile), "COMFYUI_SOURCE") = <<"external">>
    /\ get_env_value(parse_env_file(envFile), "COMFYUI_EXTERNAL_URL") = <<"ftp://", "comfy.example/">>
    /\ ret = TRUE
    /\ Count(kongFile, "comfyui-api") = 0
    /\ Count(kongFile, "n8n-api") = 1
    /\ Len(kongFile) = Len(get_supabase_services) + 4

\* C20: the gateway write is atomic: when write_config fails at any point it
\* returns False and the routing file still holds its complete previous
\* content.
C20_AtomicGatewayWrite ==
    [][(pc = "generate" /\ arg.write # "written") =>
          (ret' = FALSE /\ kongFile' = kongFile)]_vars

-----------------------------------------------------------------------------
(* SourceValidator over the settings file *)

\* validate_all_sources: [ok, errors |-> validation_errors afterwards].  Every
\* validate_source_value call starts from an empty error list.
validate_all_sources(file, yaml) ==
    IF ~yaml.loadable THEN [ok |-> FALSE, errors |-> <<Err("yaml", "", <<>>)>>]
    ELSE LET service_sources == parse_service_sources(file)
             each[i \in 0..Len(service_sources)] ==
                 IF i = 0 THEN [ok |-> TRUE, errors |-> <<>>]
                 ELSE IF service_sources[i].v = <<>> THEN each[i - 1]
                 ELSE LET r == validate_source_value(yaml, service_sources[i].k[1],
                                                     service_sources[i].v)
                      IN  [ok |-> each[i - 1].ok /\ r.ok, errors |-> r.errors]
         IN  IF service_sources = <<>>
             THEN [ok |-> FALSE, errors |-> <<Err("none", "", <<>>)>>]
             ELSE each[Len(service_sources)]

\* the tokens that end in _SCALE
ScaleVarNames ==
    {"N8N_SCALE", "N8N_WORKER_SCALE", "N8N_INIT_SCALE", "WEAVIATE_SCALE", "NEO4J_SCALE",
     "SEARXNG_SCALE", "BACKEND_SCALE", "JUPYTERHUB_SCALE", "OLLAMA_SCALE", "COMFYUI_SCALE",
     "CLIP_SCALE", "WEAVIATE_INIT_SCALE", "OLLAMA_PULL_SCALE", "COMFYUI_INIT_SCALE",
     "OPEN_WEB_UI_SCALE", "LOCAL_DEEP_RESEARCHER_SCALE"}

\* validate_scale_values: errors are appended to the errors already there
validate_scale_values(file, errors) ==
    LET env_vars == parse_env_file(file)
        each[i \in 0..Len(env_vars)] ==
            IF i = 0 THEN [ok |-> TRUE, errors |-> errors]
            ELSE LET k == env_vars[i].k
                     v == env_vars[i].v
                 IN  IF k = <<>> \/ k[Len(k)] \notin ScaleVarNames THEN each[i - 1]
                     ELSE IF strip(v, Whitespace) = <<>> THEN each[i - 1]
                     ELSE IF ~int(v).ok
                     THEN [ok |-> FALSE, errors |-> Append(each[i - 1].errors, Err("scale", k[Len(k)], v))]
                     ELSE IF int(v).val < 0
                     THEN [ok |-> FALSE, errors |-> Append(each[i - 1].errors, Err("scale", k[Len(k)], v))]
                     ELSE each[i - 1]
    IN  each[Len(env_vars)]

\* GenAIStackStarter.validate_source_configurations
validate_source_configurations(file, yaml) ==
    LET sources == validate_all_sources(file, yaml) IN
    IF ~sources.ok THEN sources ELSE validate_scale_values(file, sources.errors)

-----------------------------------------------------------------------------
(* PortManager over the settings file *)

\* update_env_ports that goes on when create_env_backup raises
update_env_ports_backup_ignored(file, base, create_backup, backup_raises) ==
    LET port_assignments == calculate_port_assignments(base)
        each[i \in 0..Len(port_assignments)] ==
            IF i = 0 THEN file
            ELSE re_sub(each[i - 1], port_assignments[i].k[1],
                        <<port_assignments[i].k[1], "=">> \o str(port_assignments[i].v))
    IN  IF ~validate_base_port(base) THEN [ok |-> FALSE, content |-> file]
        ELSE IF file = <<>> THEN [ok |-> FALSE, content |-> file]
        ELSE [ok |-> TRUE, content |-> each[Len(port_assignments)]]

\* update_env_ports: [ok, content]; only lines that exist are rewritten, and
\* an exception of create_env_backup is caught before the file is read
update_env_ports(file, base, create_backup, backup_raises) ==
    LET port_assignments == calculate_port_assignments(base)
        each[i \in 0..Len(port_assignments)] ==
            IF i = 0 THEN file
            ELSE re_sub(each[i - 1], port_assignments[i].k[1],
                        <<port_assignments[i].k[1], "=">> \o str(port_assignments[i].v))
    IN  IF ~validate_base_port(base) THEN [ok |-> FALSE, content |-> file]
        ELSE IF file = <<>> THEN [ok |-> FALSE, content |-> file]
        ELSE IF create_backup /\ backup_raises THEN [ok |-> FALSE, content |-> file]
        ELSE [ok |-> TRUE, content |-> each[Len(port_assignments)]]

SuggestStartFrom == 50000
SuggestMaxAttempts == 100
SuggestStep == 100

\* suggest_available_base_port without the validate_base_port test
RECURSIVE suggest_available_base_port_unvalidated(_, _, _)
suggest_available_base_port_unvalidated(start_from, max_attempts, inUse) ==
    IF max_attempts <= 0 THEN <<>>
    ELSE IF check_port_range_availability(start_from, inUse) = <<>>
    THEN <<start_from>>
    ELSE suggest_available_base_port_unvalidated(start_from + SuggestStep, max_attempts - 1, inUse)

\* suggest_available_base_port(start_from, max_attempts): the loop over
\* range(max_attempts), one candidate per turn; <<>> is None
RECURSIVE suggest_available_base_port(_, _, _)
suggest_available_base_port(start_from, max_attempts, inUse) ==
    IF max_attempts <= 0 THEN <<>>
    ELSE IF validate_base_port(start_from) /\ check_port_range_availability(start_from, inUse) = <<>>
    THEN <<start_from>>
    ELSE suggest_available_base_port(start_from + SuggestStep, max_attempts - 1, inUse)

\* handle_port_configuration that goes on with the suggested base port
handle_port_configuration_reallocate(file, port, inUse, backup_raises) ==
    LET base == IF port = <<>> THEN DEFAULT_BASE_PORT ELSE port[1]
        suggested == suggest_available_base_port(SuggestStartFrom, SuggestMaxAttempts, inUse)
    IN  IF ~validate_base_port(base) THEN [ok |-> FALSE, content |-> file, suggested |-> <<>>]
        ELSE IF get_port_conflicts(base, inUse) # <<>> /\ suggested = <<>>
        THEN [ok |-> FALSE, content |-> file, suggested |-> suggested]
        ELSE IF get_port_conflicts(base, inUse) # <<>>
        THEN [ok |-> update_env_ports(file, suggested[1], TRUE, backup_raises).ok,
              content |-> update_env_ports(file, suggested[1], TRUE, backup_raises).content,
              suggested |-> suggested]
        ELSE [ok |-> update_env_ports(file, base, TRUE, backup_raises).ok,
              content |-> update_env_ports(file, base, TRUE, backup_raises).content,
              suggested |-> <<>>]

\* GenAIStackStarter.handle_port_configuration: [ok, content, suggested]
handle_port_configuration(file, port, inUse, backup_raises) ==
    LET base == IF port = <<>> THEN DEFAULT_BASE_PORT ELSE port[1] IN
    IF ~validate_base_port(base) THEN [ok |-> FALSE, content |-> file, suggested |-> <<>>]
    ELSE IF get_port_conflicts(base, inUse) # <<>>
    THEN [ok |-> FALSE, content |-> file,
          suggested |-> suggest_available_base_port(SuggestStartFrom, SuggestMaxAttempts, inUse)]
    ELSE [ok |-> update_env_ports(file, base, TRUE, backup_raises).ok,
          content |-> update_env_ports(file, base, TRUE, backup_raises).content,
          suggested |-> <<>>]

-----------------------------------------------------------------------------
(* ServiceConfig: the environment synthesizer.  The schemas of this model      *)
(* declare a scale per source and no 'environment' or 'deploy' section, so     *)
(* endpoints and resources take the defaults written in the code.              *)

\* str(get_service_config(service_key, source_value).get('scale', 1))
config_scale(yaml, service_key, source_value) ==
    LET sc == yaml.source_configurable
        found == {<<i, j>> \in (1..Len(sc)) \X (1..4) :
                     /\ sc[i].key = service_key
                     /\ j <= Len(sc[i].sources)
                     /\ <<sc[i].sources[j].value>> = source_value}
        at == CHOOSE x \in found : TRUE
    IN  IF found = {} \/ sc[at[1]].sources[at[2]].scale = <<>> THEN str(1)
        ELSE str(sc[at[1]].sources[at[2]].scale[1])

\* generate_service_environment: the map of variables to write, in the order of
\* the code; <<>> when load_config fails
generate_service_environment(file, yaml) ==
    LET sources == parse_service_sources(file)
        source(var, default) == DictGet(sources, K(var), <<default>>)
        scale(service_key, var, default) == config_scale(yaml, service_key, source(var, default))
        n8n_scale == DictGet(parse_env_file(file), K("N8N_SCALE"),
                             scale("n8n", "N8N_SOURCE", "container"))
        flag(b) == IF b THEN <<"1">> ELSE <<"0">>
        E(k, v) == [k |-> K(k), v |-> v]
    IN  IF ~yaml.loadable THEN <<>>
        ELSE << E("OLLAMA_SCALE", scale("llm_provider", "LLM_PROVIDER_SOURCE", "ollama-container-cpu")),
                E("OLLAMA_ENDPOINT", <<"http://", "ollama:11434">>),
                E("OLLAMA_NVIDIA_VISIBLE_DEVICES", <<"null">>),
                E("OLLAMA_DEPLOY_RESOURCES", <<"~">>),
                E("COMFYUI_SCALE", scale("comfyui", "COMFYUI_SOURCE", "container-cpu")),
                E("COMFYUI_ENDPOINT", <<"http://", "comfyui:18188">>),
                E("COMFYUI_DEPLOY_RESOURCES", <<"~">>),
                E("IS_LOCAL_COMFYUI", <<"false">>),
                E("WEAVIATE_SCALE", scale("weaviate", "WEAVIATE_SOURCE", "container")),
                E("WEAVIATE_URL", <<"http://", "weaviate:8080">>),
                E("WEAVIATE_OLLAMA_ENDPOINT", source("OLLAMA_ENDPOINT", "http://ollama:11434")),
                E("CLIP_SCALE", scale("multi2vec-clip", "MULTI2VEC_CLIP_SOURCE", "container-cpu")),
                E("CLIP_ENABLE_CUDA", <<"0">>),
                E("CLIP_DEPLOY_RESOURCES", <<"~">>),
                E("N8N_SCALE", n8n_scale),
                E("N8N_WORKER_SCALE", n8n_scale),
                E("N8N_INIT_SCALE", n8n_scale),
                E("SEARXNG_SCALE", scale("searxng", "SEARXNG_SOURCE", "container")),
                E("NEO4J_SCALE", scale("neo4j-graph-db", "NEO4J_GRAPH_DB_SOURCE", "container")),
                E("NEO4J_URI", <<"bolt://", "neo4j-graph-db:7687">>),
                E("WEAVIATE_INIT_SCALE",
                  IF source("WEAVIATE_SOURCE", "container") = <<"disabled">> THEN <<"0">>
                  ELSE scale("weaviate", "WEAVIATE_SOURCE", "container")),
                E("OLLAMA_PULL_SCALE",
                  flag(source("LLM_PROVIDER_SOURCE", "ollama-container-cpu")
                         \in {<<"ollama-container-cpu">>, <<"ollama-container-gpu">>})),
                E("COMFYUI_INIT_SCALE", flag(source("COMFYUI_SOURCE", "container-cpu") # <<"disabled">>)),
                E("BACKEND_SCALE", <<"1">>),
                E("OPEN_WEB_UI_SCALE", flag(source("OPEN_WEB_UI_SOURCE", "container") # <<"disabled">>)),
                E("LOCAL_DEEP_RESEARCHER_SCALE",
                  flag(source("LOCAL_DEEP_RESEARCHER_SOURCE", "container") # <<"disabled">>)) >>

\* ServiceConfig.update_env_file(env_vars, create_backup): [ok, content]
service_config_update_env_file(file, env_vars, create_backup, backup_raises) ==
    IF file = <<>> THEN [ok |-> FALSE, content |-> file]
    ELSE IF create_backup /\ backup_raises THEN [ok |-> FALSE, content |-> file]
    ELSE update_env_file(file, env_vars)

\* generate_and_update_env(create_backup=True)
generate_and_update_env(file, yaml, backup_raises) ==
    LET env_vars == generate_service_environment(file, yaml) IN
    IF env_vars = <<>> THEN [ok |-> FALSE, content |-> file]
    ELSE service_config_update_env_file(file, env_vars, TRUE, backup_raises)

-----------------------------------------------------------------------------
(* Spec: main of start.py, stage by stage, up to the gateway configuration *)

\* setup_env_file: .env is copied from .env.example when missing or on a cold start
setup_env_file(file, example, cold_start) ==
    IF file = <<>> \/ cold_start
    THEN IF example = <<>> THEN [ok |-> FALSE, content |-> file]
         ELSE [ok |-> TRUE, content |-> example]
    ELSE [ok |-> TRUE, content |-> file]

\* apply_source_overrides: collect_overrides gave the map; apply_overrides writes it
apply_source_overrides(file, source_overrides) ==
    IF source_overrides = <<>> THEN [ok |-> TRUE, content |-> file]
    ELSE IF file = <<>> THEN [ok |-> FALSE, content |-> file]
    ELSE update_env_file(file, source_overrides)

Line(var, value) == <<var, "=">> \o value

MainFiles ==
    { <<>>,
      <<Line("N8N_SOURCE", <<"container">>)>>,
      <<<<"#", " ", "settings">>, Line("N8N_SOURCE", <<"container">>), Line("COMFYUI_SOURCE", <<"container-cpu">>),
        <<>>, Line("SUPABASE_DB_PORT", str(DEFAULT_BASE_PORT)), Line("REDIS_PORT", str(DEFAULT_BASE_PORT + 1)),
        Line("PROJECT_NAME", <<"genai">>), Line("N8N_SCALE", <<"1">>)>>,
      <<Line("N8N_SOURCE", <<"bogus">>), Line("COMFYUI_SOURCE", <<"bogus">>),
        Line("SUPABASE_DB_PORT", str(DEFAULT_BASE_PORT))>>,
      <<Line("N8N_SOURCE", <<"container">>), Line("SUPABASE_DB_PORT", str(DEFAULT_BASE_PORT)),
        Line("N8N_SCALE", <<"x">>)>>,
      <<Line("BACKEND_SOURCE", <<"disabled">>), Line("N8N_SOURCE", <<"container">>)>>,
      <<<<"#", " ", "settings">>, <<>>, Line("N8N_SOURCE", <<"container">>), Line("PROJECT_NAME", <<"genai">>),
        <<" ">> \o Line("N8N_SCALE", <<"1">>),
        Line("SUPABASE_DB_PORT", str(DEFAULT_BASE_PORT)), Line("CLIP_SCALE", <<"2">>),
        Line("N8N_SCALE", <<>>), <<"SEARXNG_SOURCE", " ", "=", " ", "disabled">>>> }

\* <root>/.env of the runs that have GENAI_ENV_FILE set: none, or a file
RootFiles == {<<>>, <<Line("N8N_SOURCE", <<"disabled">>), Line("PROJECT_NAME", <<"root">>)>>}

MainExamples ==
    { <<>>,
      <<Line("N8N_SOURCE", <<"container">>), Line("SUPABASE_DB_PORT", str(DEFAULT_BASE_PORT))>> }

MainOverrides ==
    { <<>>,
      Dict1("N8N_SOURCE", <<"disabled">>),
      Dict1("WEAVIATE_SOURCE", <<"disabled">>),
      Dict1("COMFYUI_SOURCE", <<"external">>) \o Dict1("N8N_SOURCE", <<"disabled">>) }

\* the schemas of the runs: none, one without dependencies, one where n8n
\* requires weaviate
MainSchemas ==
    { NoSchema,
      Schema(BaseSourceConfigurable, <<>>, <<"backend">>, <<>>),
      Schema(BaseSourceConfigurable, <<>>, <<"backend">>, <<Dep("n8n", <<"weaviate">>, <<>>)>>) }

\* what fails in a run: the calls of create_env_backup that raise, and the
\* outcome of write_config; at most one failure per run
MainFailures ==
    { [backup_raises |-> b, write |-> w, previous |-> <<>>] :
        b \in {{}, {"update_env_ports"}, {"update_env_file"}}, w \in WriteOutcomes }

MainBasePorts == {<<>>, <<MinBasePort - 1>>, <<SuggestStartFrom>>}

\* every candidate of suggest_available_base_port has a port in use
AllCandidatesTaken == {SuggestStartFrom + a * SuggestStep : a \in 0..(SuggestMaxAttempts - 1)}

MainPortsInUse ==
    { {}, {DEFAULT_BASE_PORT + 5, SuggestStartFrom}, AllCandidatesTaken \cup {DEFAULT_BASE_PORT + 2} }

Init ==
    /\ pc = "setup_env_file"
    /\ arg \in {f \in MainFailures : f.backup_raises = {} \/ f.write = "written"}
    /\ ret = None
    /\ envFile \in MainFiles
    /\ env0 = envFile
    /\ envExample \in MainExamples
    /\ yaml_config \in MainSchemas
    /\ cold \in BOOLEAN
    /\ overrides \in MainOverrides
    /\ base_port \in MainBasePorts
    /\ portsInUse \in MainPortsInUse
    /\ validation_errors = <<>>
    /\ dependency_violations = <<>>
    /\ disabled_services = <<>>
    /\ suggested_port = <<>>
    /\ kong_config = <<>>
    /\ kongFile = <<>>
    /\ GENAI_ENV_FILE \in BOOLEAN
    /\ rootEnv \in IF GENAI_ENV_FILE THEN RootFiles ELSE {<<>>}

mainInputs == <<arg, env0, envExample, yaml_config, cold, overrides, base_port, portsInUse,
                GENAI_ENV_FILE>>

stageIdle == <<dependency_violations, disabled_services, kong_config, kongFile, rootEnv>>

\* the stage that follows, or sys.exit(1)
Then(ok, next) == IF ok THEN next ELSE "exit_1"

\* setup_env_file works on <root>/.env, which is the settings file of the
\* other stages unless GENAI_ENV_FILE names another one
SetupEnvFile ==
    /\ pc = "setup_env_file"
    /\ \E r \in {setup_env_file(IF GENAI_ENV_FILE THEN rootEnv ELSE envFile, envExample, cold)} :
        /\ IF GENAI_ENV_FILE
           THEN rootEnv' = r.content /\ envFile' = envFile
           ELSE envFile' = r.content /\ rootEnv' = rootEnv
        /\ ret' = r.ok
        /\ pc' = Then(r.ok, "apply_source_overrides")
    /\ UNCHANGED <<validation_errors, suggested_port, mainInputs,
                   dependency_violations, disabled_services, kong_config, kongFile>>

ApplySourceOverrides ==
    /\ pc = "apply_source_overrides"
    /\ \E r \in {apply_source_overrides(envFile, overrides)} :
        /\ envFile' = r.content
        /\ ret' = r.ok
        /\ pc' = Then(r.ok, "validate_source_configurations")
    /\ UNCHANGED <<validation_errors, suggested_port, mainInputs, stageIdle>>

ValidateSourceConfigurations ==
    /\ pc = "validate_source_configurations"
    /\ \E r \in {validate_source_configurations(envFile, yaml_config)} :
        /\ validation_errors' = r.errors
        /\ ret' = r.ok
        /\ pc' = Then(r.ok, "handle_port_configuration")
    /\ UNCHANGED <<envFile, suggested_port, mainInputs, stageIdle>>

HandlePortConfiguration ==
    /\ pc = "handle_port_configuration"
    /\ \E r \in {handle_port_configuration(envFile, base_port, portsInUse,
                                          "update_env_ports" \in arg.backup_raises)} :
        /\ envFile' = r.content
        /\ suggested_port' = r.suggested
        /\ ret' = r.ok
        /\ pc' = Then(r.ok, "generate_service_configuration")
    /\ UNCHANGED <<validation_errors, mainInputs, stageIdle>>

\* generate_service_configuration handing over to the gateway stage
GenerateServiceConfiguration_then_gateway ==
    /\ pc = "generate_service_configuration"
    /\ \E r \in {generate_and_update_env(envFile, yaml_config,
                                        "update_env_file" \in arg.backup_raises)} :
        /\ envFile' = r.content
        /\ ret' = r.ok
        /\ pc' = Then(r.ok, "generate_kong_configuration")
    /\ UNCHANGED <<validation_errors, suggested_port, mainInputs, stageIdle>>

GenerateServiceConfiguration ==
    /\ pc = "generate_service_configuration"
    /\ \E r \in {generate_and_update_env(envFile, yaml_config,
                                        "update_env_file" \in arg.backup_raises)} :
        /\ envFile' = r.content
        /\ ret' = r.ok
        /\ pc' = Then(r.ok, "check_service_dependencies")
    /\ UNCHANGED <<validation_errors, suggested_port, mainInputs, stageIdle>>

\* GenAIStackStarter.check_service_dependencies: check, then auto-resolve when
\* violations were found; an exception of the check ends the run in main
StarterCheckServiceDependencies ==
    /\ pc = "check_service_dependencies"
    /\ \E c \in {check_service_dependencies(envFile, yaml_config)} :
        /\ dependency_violations' = c.violations
        /\ IF c.raised
           THEN /\ pc' = "exit_1"
                /\ UNCHANGED <<envFile, disabled_services, ret>>
           ELSE IF c.ok
           THEN /\ ret' = TRUE
                /\ pc' = "generate_kong_configuration"
                /\ UNCHANGED <<envFile, disabled_services>>
           ELSE \E r \in {auto_resolve_dependency_violations(envFile, c.violations)} :
                /\ envFile' = r.content
                /\ disabled_services' = r.disabled
                /\ ret' = (r.disabled # <<>>)
                /\ pc' = Then(r.disabled # <<>>, "generate_kong_configuration")
    /\ UNCHANGED <<validation_errors, suggested_port, kong_config, kongFile, rootEnv, mainInputs>>

\* GenAIStackStarter.generate_kong_configuration as a stage of main
StarterGenerateKongConfiguration ==
    /\ pc = "generate_kong_configuration"
    /\ \E config \in {generate_kong_config(envFile)} :
        /\ kong_config' = config
        /\ IF validate_config(config) # <<>>
           THEN ret' = FALSE /\ kongFile' = kongFile /\ pc' = "exit_1"
           ELSE \E w \in write_config(config, arg.write, kongFile) :
                   /\ ret' = w.ok
                   /\ kongFile' = w.file
                   /\ pc' = Then(w.ok, "validate_supabase_keys")
    /\ UNCHANGED <<envFile, validation_errors, suggested_port, dependency_violations,
                   disabled_services, rootEnv, mainInputs>>

Next ==
    \/ SetupEnvFile
    \/ ApplySourceOverrides
    \/ ValidateSourceConfigurations
    \/ HandlePortConfiguration
    \/ GenerateServiceConfiguration
    \/ StarterCheckServiceDependencies
    \/ StarterGenerateKongConfiguration

Spec == Init /\ [][Next]_vars

\* the runs of start.py one after the other on the same settings file
MaxRuns == 2

\* the next invocation of start.py, once this one has ended or has gone on to
\* the stages after the gateway configuration: the same options, none, or
\* weaviate selected again
StartNextRun ==
    /\ pc \in {"exit_1", "validate_supabase_keys"}
    /\ Len(arg.previous) < MaxRuns - 1
    /\ pc' = "setup_env_file"
    /\ arg' = [arg EXCEPT !.previous =
                  Append(@, [overrides |-> overrides, env0 |-> env0, cold |-> cold,
                             disabled |-> disabled_services, pc |-> pc])]
    /\ env0' = envFile
    /\ overrides' \in {<<>>, overrides, Dict1("WEAVIATE_SOURCE", <<"container">>)}
    /\ cold' = FALSE
    /\ validation_errors' = <<>>
    /\ dependency_violations' = <<>>
    /\ disabled_services' = <<>>
    /\ suggested_port' = <<>>
    /\ kong_config' = <<>>
    /\ ret' = None
    /\ UNCHANGED <<envFile, envExample, yaml_config, base_port, portsInUse, kongFile,
                   GENAI_ENV_FILE, rootEnv>>

NextRuns == Next \/ StartNextRun

\* runs on <root>/.env in which no port is taken and no write fails
InitRuns ==
    /\ Init
    /\ ~GENAI_ENV_FILE
    /\ arg.backup_raises = {}
    /\ arg.write = "written"
    /\ portsInUse = {}

SpecRuns == InitRuns /\ [][NextRuns]_vars

\* the selectors of the settings file that validate_source_value rejects
InvalidSelectors(file, yaml) ==
    LET service_sources == parse_service_sources(file) IN
    {i \in 1..Len(service_sources) :
        /\ service_sources[i].v # <<>>
        /\ ~validate_source_value(yaml, service_sources[i].k[1], service_sources[i].v).ok}

\* C12: the validator accumulates: when the schema is loaded and the settings
\* file holds n >= 2 invalid selectors, the errors after validation name each
\* of the n selectors.
C12_AllViolationsReported ==
    [][(/\ pc = "validate_source_configurations"
        /\ yaml_config.loadable
        /\ Cardinality(InvalidSelectors(envFile, yaml_config)) >= 2)
       => \A i \in InvalidSelectors(envFile, yaml_config) :
             \E j \in 1..Len(validation_errors') :
                validation_errors'[j].var = parse_service_sources(envFile)[i].k[1]]_vars

C14_FailedBackupBlocksWrite ==
    [][/\ (pc = "handle_port_configuration" /\ "update_env_ports" \in arg.backup_raises)
            => (ret' = FALSE /\ envFile' = envFile /\ pc' = "exit_1")
       /\ (pc = "generate_service_configuration" /\ "update_env_file" \in arg.backup_raises)
            => (ret' = FALSE /\ envFile' = envFile /\ pc' = "exit_1")]_vars

\* a run that asked for another base port on a free range, reached
\* update_env_ports, and stopped there with the port lines as they were
C14_Witness ==
    /\ pc = "exit_1"
    /\ arg.backup_raises = {"update_env_ports"}
    /\ yaml_config.loadable
    /\ validation_errors = <<>>
    /\ base_port = <<SuggestStartFrom>>
    /\ get_port_conflicts(SuggestStartFrom, portsInUse) = <<>>
    /\ DictGet(parse_env_file(envFile), K("SUPABASE_DB_PORT"), <<>>) = str(DEFAULT_BASE_PORT)
    /\ ret = FALSE

\* C16: after the synthesizer has run, the scale variable of each
\* selector-configurable service holds the scale the schema declares for the
\* service and its resolved selector, whatever the file held before.
C16_ScaleFromSchema ==
    [][(pc = "generate_service_configuration" /\ ret' = TRUE) =>
        \A s \in { <<"llm_provider", "LLM_PROVIDER_SOURCE", "ollama-container-cpu", "OLLAMA_SCALE">>,
                    <<"comfyui", "COMFYUI_SOURCE", "container-cpu", "COMFYUI_SCALE">>,
                    <<"weaviate", "WEAVIATE_SOURCE", "container", "WEAVIATE_SCALE">>,
                    <<"n8n", "N8N_SOURCE", "container", "N8N_SCALE">>,
                    <<"searxng", "SEARXNG_SOURCE", "container", "SEARXNG_SCALE">> } :
            DictGet(parse_env_file(envFile'), K(s[4]), <<>>)
                = config_scale(yaml_config, s[1],
                               DictGet(parse_service_sources(envFile'), K(s[2]), <<s[3]>>))]_vars

\* C11: an override given on the command line lasts for that run only: in a
\* following run that gives no override, every selector the earlier run
\* overrode resolves to the value the settings file held before that run.
C11_OverridesSessionScoped ==
    (/\ Len(arg.previous) = 1
     /\ overrides = <<>>
     /\ arg.previous[1].env0 # <<>>
     /\ ~arg.previous[1].cold
     /\ pc = "validate_source_configurations") =>
        \A i \in 1..Len(arg.previous[1].overrides) :
            LET X_SOURCE == arg.previous[1].overrides[i].k IN
            DictGet(parse_service_sources(envFile), X_SOURCE, <<>>)
                = DictGet(parse_service_sources(arg.previous[1].env0), X_SOURCE, <<>>)

\* the base port handle_port_configuration works with
EffectiveBasePort == IF base_port = <<>> THEN DEFAULT_BASE_PORT ELSE base_port[1]

\* C9: when a port of the requested base is in use, handle_port_configuration
\* returns False and the run exits, the settings file is left as it was, and
\* the alternative base port is only kept as a suggestion.
C9_ConflictAbortsWithoutWrite ==
    [][(pc = "handle_port_configuration"
            /\ get_port_conflicts(EffectiveBasePort, portsInUse) # <<>>)
        => /\ ret' = FALSE
           /\ pc' = "exit_1"
           /\ envFile' = envFile
           /\ validate_base_port(EffectiveBasePort)
                 => suggested_port' = suggest_available_base_port(SuggestStartFrom,
                                          SuggestMaxAttempts, portsInUse)]_vars

\* a run that stopped on a conflict with a suggestion other than the first
\* candidate, on a settings file that has port lines
C9_Witness ==
    /\ pc = "exit_1"
    /\ get_port_conflicts(EffectiveBasePort, portsInUse) # <<>>
    /\ suggested_port = <<SuggestStartFrom + SuggestStep>>
    /\ re_search(envFile, "SUPABASE_DB_PORT")

\* C10: when the schema cannot be loaded the run stops before the port stage,
\* and the settings file at exit is the file the run started with; taken here
\* for runs that start on an existing settings file without --cold, so that the
\* command-line overrides are the only writer before the schema is loaded.
C10_SchemaFailureBeforeMutation ==
    (~yaml_config.loadable /\ env0 # <<>> /\ ~cold) =>
        /\ pc \in {"setup_env_file", "apply_source_overrides",
                   "validate_source_configurations", "exit_1"}
        /\ pc = "exit_1" => envFile = env0

-----------------------------------------------------------------------------
(* SpecSuggest: suggest_available_base_port called with arguments, and called *)
(* by handle_port_configuration after a conflict                              *)

MaxSuggestAttempts == 3

\* start_from: a first candidate below the valid range, the default, and one
\* two steps under the last valid base
SuggestStarts ==
    {MinBasePort - SuggestStep, SuggestStartFrom, MaxPort - MaxOffset - SuggestStep}

\* ports that may be in use: on the candidates of each start and on the
\* default base port
SuggestPorts ==
    { MinBasePort, SuggestStartFrom, SuggestStartFrom + SuggestStep + 2,
      SuggestStartFrom + 2 * SuggestStep, MaxPort - SuggestStep, DEFAULT_BASE_PORT + 5 }

InitSuggest ==
    /\ pc \in {"suggest_available_base_port", "handle_port_configuration"}
    /\ arg \in [start_from : SuggestStarts, max_attempts : 0..MaxSuggestAttempts,
                backup_raises : {{}}]
    /\ ret = None
    /\ envFile = <<Line("SUPABASE_DB_PORT", str(DEFAULT_BASE_PORT))>>
    /\ env0 = envFile
    /\ envExample = <<>>
    /\ yaml_config = NoSchema
    /\ cold = FALSE
    /\ overrides = <<>>
    /\ base_port \in {<<>>, <<SuggestStartFrom>>}
    /\ portsInUse \in SUBSET SuggestPorts
    /\ validation_errors = <<>>
    /\ dependency_violations = <<>>
    /\ disabled_services = <<>>
    /\ suggested_port = <<>>
    /\ kong_config = <<>>
    /\ kongFile = <<>>
    /\ GENAI_ENV_FILE = FALSE
    /\ rootEnv = <<>>

SuggestAvailableBasePort ==
    /\ pc = "suggest_available_base_port"
    /\ \E r \in {suggest_available_base_port(arg.start_from, arg.max_attempts, portsInUse)} :
        /\ suggested_port' = r
        /\ ret' = r
    /\ pc' = "suggested"
    /\ UNCHANGED <<envFile, validation_errors, mainInputs, stageIdle>>

NextSuggest == SuggestAvailableBasePort \/ HandlePortConfiguration

SpecSuggest == InitSuggest /\ [][NextSuggest]_vars

\* the first of the candidates start_from, start_from + step, ... (at most
\* max_attempts of them) that validate_base_port accepts and that has no port
\* in use; <<>> when there is none
FirstFree(start_from, max_attempts, inUse) ==
    LET candidate(a) == start_from + a * SuggestStep
        qualifies(a) == /\ validate_base_port(candidate(a))
                        /\ get_port_conflicts(candidate(a), inUse) = <<>>
        attempts == {a \in 0..(max_attempts - 1) : qualifies(a)}
    IN  IF attempts = {} THEN <<>>
        ELSE <<candidate(CHOOSE a \in attempts : \A other \in attempts : a <= other)>>

\* C19, as stated: suggest_available_base_port(start, max_attempts) returns the
\* first qualifying candidate of its linear search and None iff there is none;
\* and after a conflict at base b the suggestion is the next free base after b.
C19_NextFreeBaseAfterConflict ==
    /\ pc = "suggested" => ret = FirstFree(arg.start_from, arg.max_attempts, portsInUse)
    /\ (pc = "exit_1" /\ get_port_conflicts(EffectiveBasePort, portsInUse) # <<>>) =>
          /\ suggested_port # <<>>
          /\ suggested_port[1] > EffectiveBasePort
          /\ get_port_conflicts(suggested_port[1], portsInUse) = <<>>

\* C19, amended: the same linear search; after a conflict at base b the handler
\* calls it with its defaults, so the suggestion is the first free base from
\* SuggestStartFrom on, which may lie below b.
C19_FirstFreeCandidate ==
    /\ pc = "suggested" => ret = FirstFree(arg.start_from, arg.max_attempts, portsInUse)
    /\ (pc = "exit_1" /\ get_port_conflicts(EffectiveBasePort, portsInUse) # <<>>) =>
          suggested_port = FirstFree(SuggestStartFrom, SuggestMaxAttempts, portsInUse)

\* a search that skipped an invalid candidate and a taken one and returned the
\* third, its last attempt
C19_Witness ==
    /\ pc = "suggested"
    /\ arg.start_from = MinBasePort - SuggestStep
    /\ arg.max_attempts = 3
    /\ MinBasePort \in portsInUse
    /\ ret = <<MinBasePort + SuggestStep>>

\* C18: update_env_ports persists the whole assignment: when it returns True,
\* the settings file parsed afterwards maps every variable of PORT_MAPPING to
\* base + offset, the variables that had no line before the call included.
C18_WholeAssignmentPersisted ==
    [][(pc = "handle_port_configuration" /\ ret' = TRUE) =>
        \A i \in 1..Len(PORT_MAPPING) :
            DictGet(parse_env_file(envFile'), K(PORT_MAPPING[i].var), <<>>)
                = str(EffectiveBasePort + PORT_MAPPING[i].offset)]_vars


-----------------------------------------------------------------------------
(* The selectors as the two parsers read them *)

\* C21: whatever the settings file holds, a BACKEND_SOURCE line with another
\* value included, parse_service_sources maps BACKEND_SOURCE to "container"
\* when validate_source_configurations reads the selectors.
C21_BackendSelectorFixed ==
    pc = "validate_source_configurations" =>
        DictGet(parse_service_sources(envFile), K("BACKEND_SOURCE"), <<>>) = <<"container">>


-----------------------------------------------------------------------------
(* The scale values that pass validation *)

\* C22: validate_scale_values returns true exactly when every *_SCALE value of
\* the settings file parses as an integer >= 0, an empty value making it false.
C22_EveryScaleValueIsInteger ==
    [][(pc = "validate_source_configurations" /\ validate_all_sources(envFile, yaml_config).ok) =>
        LET env_vars == parse_env_file(envFile)
            scale_vars == {i \in 1..Len(env_vars) :
                              env_vars[i].k # <<>> /\ env_vars[i].k[Len(env_vars[i].k)] \in ScaleVarNames}
        IN  ret' = (\A i \in scale_vars : int(env_vars[i].v).ok /\ int(env_vars[i].v).val >= 0)]_vars


-----------------------------------------------------------------------------
(* Optional dependencies *)

\* C23: a service that is enabled, has every required service enabled and has
\* an optional service disabled gets no violation from
\* check_service_dependencies, is not in the list auto_resolve returns, and
\* its scale variable reads the same after auto_resolve as before the check.
C23_OptionalNeverDisables ==
    pc \in {"checked", "resolved"} =>
        \A i \in 1..Len(yaml_config.service_dependencies) :
            LET d == yaml_config.service_dependencies[i]
                scale(service) == get_service_scale(env0, service)
                only_optional_unmet ==
                    /\ scale(d.service).ok /\ scale(d.service).val > 0
                    /\ \A j \in 1..Len(d.requires) :
                          scale(d.requires[j]).ok /\ scale(d.requires[j]).val > 0
                    /\ \A j \in 1..Len(d.optional) : scale(d.optional[j]).ok
                    /\ \E j \in 1..Len(d.optional) : scale(d.optional[j]).val = 0
                scale_var == K(scale_var_mapping(d.service))
            IN  only_optional_unmet =>
                    /\ \A j \in 1..Len(dependency_violations) :
                          dependency_violations[j].service # d.service
                    /\ pc = "resolved" =>
                          /\ \A j \in 1..Len(disabled_services) : disabled_services[j] # d.service
                          /\ DictGet(parse_env_file(envFile), scale_var, <<>>)
                                 = DictGet(parse_env_file(env0), scale_var, <<>>)

\* C23 as the code has it: the same, the scale variable being unchanged when no
\* violation was recorded for a service that auto_resolve disables through the
\* same variable (n8n and n8n-worker are both disabled through N8N_SCALE).
C23_OptionalEdgeAddsNoViolation ==
    pc \in {"checked", "resolved"} =>
        \A i \in 1..Len(yaml_config.service_dependencies) :
            LET d == yaml_config.service_dependencies[i]
                scale(service) == get_service_scale(env0, service)
                only_optional_unmet ==
                    /\ scale(d.service).ok /\ scale(d.service).val > 0
                    /\ \A j \in 1..Len(d.requires) :
                          scale(d.requires[j]).ok /\ scale(d.requires[j]).val > 0
                    /\ \A j \in 1..Len(d.optional) : scale(d.optional[j]).ok
                    /\ \E j \in 1..Len(d.optional) : scale(d.optional[j]).val = 0
                scale_var == K(scale_var_mapping(d.service))
                resolved_var(service) ==
                    IF service \in {"n8n", "n8n-worker"} THEN K("N8N_SCALE")
                    ELSE K(resolve_scale_var_mapping(service))
                shared == \E j \in 1..Len(dependency_violations) :
                              resolved_var(dependency_violations[j].service) = scale_var
            IN  only_optional_unmet =>
                    /\ \A j \in 1..Len(dependency_violations) :
                          dependency_violations[j].service # d.service
                    /\ pc = "resolved" =>
                          /\ \A j \in 1..Len(disabled_services) : disabled_services[j] # d.service
                          /\ ~shared =>
                                DictGet(parse_env_file(envFile), scale_var, <<>>)
                                    = DictGet(parse_env_file(env0), scale_var, <<>>)

\* auto_resolve has run for n8n, enabled with weaviate enabled and the optional
\* searxng disabled
C23_Witness ==
    /\ pc = "resolved"
    /\ yaml_config.service_dependencies = <<Dep("n8n", <<"weaviate">>, <<"searxng">>)>>
    /\ get_service_scale(env0, "n8n") = [ok |-> TRUE, val |-> 1]
    /\ get_service_scale(env0, "weaviate") = [ok |-> TRUE, val |-> 1]
    /\ get_service_scale(env0, "searxng") = [ok |-> TRUE, val |-> 0]
    /\ dependency_violations = <<>>
    /\ envFile = env0


-----------------------------------------------------------------------------
(* The lines a writer leaves alone *)

\* C24: every stage that writes the settings file (the overrides, the port
\* update, the synthesizer, the auto-disable step) leaves the blank lines, the
\* comment lines and the assignments of the keys it does not write as they
\* were and in the order they were in.
C24_UntouchedLinesPreserved ==
    [][LET written ==
              CASE pc = "apply_source_overrides" -> {overrides[i].k[1] : i \in 1..Len(overrides)}
                [] pc = "handle_port_configuration" ->
                       {PORT_MAPPING[i].var : i \in 1..Len(PORT_MAPPING)}
                [] pc = "generate_service_configuration" ->
                       LET env_vars == generate_service_environment(envFile, yaml_config)
                       IN  {env_vars[i].k[1] : i \in 1..Len(env_vars)}
                [] pc = "check_service_dependencies" ->
                       {"N8N_SCALE"} \cup
                           {resolve_scale_var_mapping(dependency_violations'[i].service) :
                               i \in 1..Len(dependency_violations')}
                [] OTHER -> {}
           untouched(line) == \A var \in written : ~line_matches(line, var)
       IN  pc \in {"apply_source_overrides", "handle_port_configuration",
                   "generate_service_configuration", "check_service_dependencies"} =>
               SelectSeq(envFile', untouched) = SelectSeq(envFile, untouched)]_vars

\* the overrides, the ports, the synthesizer and the auto-disable step have
\* written a file that has a comment line, a blank line and a key none writes
C24_Witness ==
    /\ pc = "generate_kong_configuration"
    /\ ~cold
    /\ overrides # <<>>
    /\ disabled_services # <<>>
    /\ envFile # env0
    /\ \E i \in 1..Len(envFile) : envFile[i] = <<"#", " ", "settings">>
    /\ \E i \in 1..Len(envFile) : envFile[i] = <<>>
    /\ \E i \in 1..Len(envFile) : envFile[i] = Line("PROJECT_NAME", <<"genai">>)
    /\ \E i \in 1..Len(envFile) : envFile[i] = Line("SUPABASE_DB_PORT", str(SuggestStartFrom))


-----------------------------------------------------------------------------
(* The gateway after the dependency stage *)

\* C25: when a run has written the gateway configuration, the routing table
\* has an entry for n8n only if N8N_SCALE in the settings file is above 0, and
\* none for a service the dependency stage auto-disabled in this run.
C25_GatewayFollowsScale ==
    pc = "validate_supabase_keys" =>
        /\ Count(kongFile, "n8n-api") > 0 =>
              (get_service_scale(envFile, "n8n").ok /\ get_service_scale(envFile, "n8n").val > 0)
        /\ (\E j \in 1..Len(disabled_services) : disabled_services[j] = "n8n") =>
              Count(kongFile, "n8n-api") = 0


-----------------------------------------------------------------------------
(* The settings file over two runs *)

\* C26: when n8n was auto-disabled in the run before and this run has weaviate
\* enabled with N8N_SOURCE still "container", the run ends with N8N_SCALE,
\* N8N_WORKER_SCALE and N8N_INIT_SCALE at the scale the schema declares for
\* the selector, and n8n enabled.
C26_AutoDisableNotSticky ==
    (/\ pc = "validate_supabase_keys"
     /\ Len(arg.previous) = 1
     /\ arg.previous[1].disabled = <<"n8n">>
     /\ DictGet(parse_service_sources(envFile), K("N8N_SOURCE"), <<>>) = <<"container">>
     /\ get_service_scale(envFile, "weaviate") = [ok |-> TRUE, val |-> 1]) =>
        LET env_vars == parse_env_file(envFile)
            schema_scale == config_scale(yaml_config, "n8n", <<"container">>)
        IN  /\ DictGet(env_vars, K("N8N_SCALE"), <<>>) = schema_scale
            /\ DictGet(env_vars, K("N8N_WORKER_SCALE"), <<>>) = schema_scale
            /\ DictGet(env_vars, K("N8N_INIT_SCALE"), <<>>) = schema_scale
            /\ get_service_scale(envFile, "n8n").val > 0

\* C27: a second run with the options of the first, both reaching the end of
\* the gateway stage, leaves the settings file as the first run left it.
C27_RunIdempotent ==
    (/\ pc = "validate_supabase_keys"
     /\ Len(arg.previous) = 1
     /\ arg.previous[1].pc = "validate_supabase_keys"
     /\ ~arg.previous[1].cold
     /\ arg.previous[1].overrides = overrides) =>
        envFile = env0


-----------------------------------------------------------------------------
(* Validation and the dependency stage *)

\* C28: on a settings file for which validate_all_sources and
\* validate_scale_values both return true, check_service_dependencies returns
\* true or false and raises no exception.
C28_ValidationSufficient ==
    (/\ pc = "check_service_dependencies"
     /\ validate_all_sources(envFile, yaml_config).ok
     /\ validate_scale_values(envFile, <<>>).ok) =>
        ~check_service_dependencies(envFile, yaml_config).raised


-----------------------------------------------------------------------------
(* The selectors of the two parsers *)

\* C29: for every key ending in _SOURCE, parse_env_file (read by the gateway
\* generator) and parse_service_sources (read by the validator and the
\* synthesizer) give the same value for the settings file, or both give none.
C29_ParsersAgreeOnSelectors ==
    pc \in {"validate_source_configurations", "generate_service_configuration",
            "generate_kong_configuration"} =>
        \A var \in SourceVarNames :
            /\ DictHas(parse_env_file(envFile), K(var)) = DictHas(parse_service_sources(envFile), K(var))
            /\ DictGet(parse_env_file(envFile), K(var), <<>>)
                   = DictGet(parse_service_sources(envFile), K(var), <<>>)


-----------------------------------------------------------------------------
(* The settings file under GENAI_ENV_FILE *)

\* C30: with GENAI_ENV_FILE set, no stage of a run creates or changes
\* <root>/.env.
C30_RootEnvUntouched ==
    [][GENAI_ENV_FILE => rootEnv' = rootEnv]_vars

====
